---------------------------- MODULE Spec2Model ----------------------------
(***************************************************************************)
(* A model of the circuit breaker of src/v2/gobreaker.go.                  *)
(*                                                                         *)
(* The breaker is the record cb (settings after NewCircuitBreaker's        *)
(* coercions, state, generation, windowCounts, expiry).  Every method that *)
(* takes cb.mutex is one atomic action; Execute is two actions (admission, *)
(* outcome report) because the closure runs with the mutex released.       *)
(* time.Now() is the variable now; a time.Time is a natural number and the *)
(* zero time.Time is 0 (the clock starts at 1).  Durations are in clock    *)
(* ticks (milliseconds).                                                   *)
(*                                                                         *)
(* src/v2/gobreaker.go has no notion of an excluded outcome; the revision  *)
(* that has one is tested by src/v2/gobreaker_test.go (Settings.Exclude,   *)
(* Counts.TotalExclusions) but is not among the sources.  The definitions  *)
(* TotalExclusionsOf, NonExcluded, Counts_onExclusion,                     *)
(* WindowCounts_onExclusion, onExclusion, Classified and the setting       *)
(* IsExcluded model that part from the specification; everything else      *)
(* follows src/v2/gobreaker.go.                                            *)
(*                                                                         *)
(* A breaker is built either by NewCircuitBreaker, and then reached        *)
(* through Execute, or by NewTwoStepCircuitBreaker, whose inner breaker is *)
(* private and reached through Allow and the done callbacks only.          *)
(***************************************************************************)
EXTENDS Integers, Sequences, FiniteSets, TLC

\* ------------------------------------------------------------------ bounds
MaxTime == 4           \* the clock runs from 1 to MaxTime
MaxCount == 2          \* no counter of the aggregate Counts is driven past this

\* -------------------------------------------------------- settings explored
\* Settings.MaxRequests (0 is coerced to 1)
MaxRequestsSettings == {0, 2}
\* Settings.Interval, with Settings.BucketPeriod = 1: 0 never rotates, 1 is a
\* fixed window (BucketPeriod = Interval), 2 a rolling window of two buckets
IntervalSettings == {0, 1, 2}
BucketPeriodSettings == {1}
\* Settings.Timeout
TimeoutSettings == {1}
\* Settings.ReadyToTrip: << >> is nil, <<k>> is the predicate
\* counts.ConsecutiveFailures > k
ReadyToTripSettings == {<<1>>}
\* Settings.IsExcluded: FALSE is nil (nothing is excluded), TRUE a predicate
\* that holds of some errors
IsExcludedSettings == {FALSE, TRUE}
\* Settings.OnStateChange: FALSE is nil, TRUE a callback that records the
\* calls made to it
OnStateChangeSettings == {FALSE, TRUE}

\* defaultInterval, defaultTimeout (60 s in ticks), defaultReadyToTrip's threshold
defaultInterval == 0
defaultTimeout == 60000
defaultTripAfter == 5

Callers == {1, 2}
Outcomes == {"success", "failure", "excluded"}

VARIABLES
    cb,      \* the CircuitBreaker
    now,     \* time.Now()
    pc,      \* per caller: "idle", "running" (inside Execute's closure),
             \* "allowed" (holds a done callback not yet invoked),
             \* "reported" (holds a done callback already invoked)
    tag,     \* per caller: the generation beforeRequest returned to it
    rotated, \* per caller: the window was rotated since its call was admitted (history)
    twoStep, \* the breaker is a TwoStepCircuitBreaker (reached through Allow
             \* only); otherwise a CircuitBreaker (reached through Execute only)
    mutex,   \* cb.mutex: 0 when unlocked, else the caller that holds it
    live,    \* in HalfOpen: the calls admitted since the breaker became
             \* HalfOpen that have not completed as excluded (history)
    last,    \* the operation that produced this state (history)
    dist,    \* the DistributedCircuitBreaker instances and their shared
             \* store; Undistributed while the breaker is used on its own
    entity   \* the entities.CircuitBreaker (the breaker of state objects)
             \* driven by the same calls as cb, with its callers' positions
             \* and generations; Unpaired while cb is used on its own

vars == <<cb, now, pc, tag, rotated, twoStep, mutex, live, last, dist, entity>>

\* ------------------------------------------------------------------ Counts
ZeroCounts ==
    [Requests |-> 0, TotalSuccesses |-> 0, TotalFailures |-> 0,
     ConsecutiveSuccesses |-> 0, ConsecutiveFailures |-> 0,
     TotalExclusions |-> 0]

\* Counts.TotalExclusions of the revision with exclusions
TotalExclusionsOf(counts) == counts.TotalExclusions

\* the admitted requests that have not completed as excluded
NonExcluded(counts) == counts.Requests - TotalExclusionsOf(counts)

\* Counts.onExclusion of the revision with exclusions
Counts_onExclusion(counts) ==
    [counts EXCEPT !.TotalExclusions = @ + 1]

\* ------------------------------------------------------------ WindowCounts
NewWindowCounts(numBuckets) ==
    [Counts |-> ZeroCounts, numBuckets |-> numBuckets,
     bucketCounts |-> << >>, bucketGeneration |-> 0]

ToCounts(w) == w.Counts

\* bucketCounts.Back() of a non-empty list (an empty list would make
\* currentBucket nil; clear() leaves one bucket and rotate() never empties)
BackIndex(w) == Len(w.bucketCounts)

WindowCounts_onRequest(w) ==
    [w EXCEPT !.Counts.Requests = @ + 1,
              !.bucketCounts[BackIndex(w)].Requests = @ + 1]

\* onSuccess that counts in the current bucket only
WindowCounts_onSuccess_bucketOnly(w) ==
    [w EXCEPT !.bucketCounts[BackIndex(w)].TotalSuccesses = @ + 1,
              !.bucketCounts[BackIndex(w)].ConsecutiveSuccesses = @ + 1,
              !.bucketCounts[BackIndex(w)].ConsecutiveFailures = 0]

WindowCounts_onSuccess(w) ==
    [w EXCEPT !.Counts.TotalSuccesses = @ + 1,
              !.Counts.ConsecutiveSuccesses = @ + 1,
              !.Counts.ConsecutiveFailures = 0,
              !.bucketCounts[BackIndex(w)].TotalSuccesses = @ + 1,
              !.bucketCounts[BackIndex(w)].ConsecutiveSuccesses = @ + 1,
              !.bucketCounts[BackIndex(w)].ConsecutiveFailures = 0]

WindowCounts_onFailure(w) ==
    [w EXCEPT !.Counts.TotalFailures = @ + 1,
              !.Counts.ConsecutiveFailures = @ + 1,
              !.Counts.ConsecutiveSuccesses = 0,
              !.bucketCounts[BackIndex(w)].TotalFailures = @ + 1,
              !.bucketCounts[BackIndex(w)].ConsecutiveFailures = @ + 1,
              !.bucketCounts[BackIndex(w)].ConsecutiveSuccesses = 0]

\* the exclusion counterpart of onSuccess / onFailure
WindowCounts_onExclusion(w) ==
    [w EXCEPT !.Counts = Counts_onExclusion(@),
              !.bucketCounts[BackIndex(w)] = Counts_onExclusion(@)]

\* clear() that forgets to reset the streaks
WindowCounts_clear_keepsStreaks(w) ==
    [w EXCEPT !.Counts = [ZeroCounts EXCEPT
                            !.ConsecutiveSuccesses = w.Counts.ConsecutiveSuccesses,
                            !.ConsecutiveFailures = w.Counts.ConsecutiveFailures],
              !.bucketGeneration = 0,
              !.bucketCounts = <<ZeroCounts>>]

WindowCounts_clear(w) ==
    [w EXCEPT !.Counts = ZeroCounts,
              !.bucketGeneration = 0,
              !.bucketCounts = <<ZeroCounts>>]

\* rotate that removes the oldest bucket without subtracting it
WindowCounts_rotate_keepsTotals(w) ==
    LET pushed == Append(w.bucketCounts, ZeroCounts) IN
    IF Len(pushed) <= w.numBuckets
    THEN [w EXCEPT !.bucketCounts = pushed]
    ELSE [w EXCEPT !.bucketCounts = Tail(pushed)]

WindowCounts_rotate(w) ==
    LET pushed == Append(w.bucketCounts, ZeroCounts) IN
    IF Len(pushed) <= w.numBuckets
    THEN [w EXCEPT !.bucketCounts = pushed]
    ELSE
      LET oldBucketCount == Head(pushed)
          c == w.Counts
          cs == IF c.ConsecutiveSuccesses = c.TotalSuccesses
                THEN c.ConsecutiveSuccesses - oldBucketCount.ConsecutiveSuccesses
                ELSE c.ConsecutiveSuccesses
          cf == IF c.ConsecutiveFailures = c.TotalFailures
                THEN c.ConsecutiveFailures - oldBucketCount.ConsecutiveFailures
                ELSE c.ConsecutiveFailures
      IN [w EXCEPT
            !.Counts = [Requests |-> c.Requests - oldBucketCount.Requests,
                        TotalSuccesses |-> c.TotalSuccesses - oldBucketCount.TotalSuccesses,
                        TotalFailures |-> c.TotalFailures - oldBucketCount.TotalFailures,
                        ConsecutiveSuccesses |-> cs,
                        ConsecutiveFailures |-> cf,
                        TotalExclusions |-> TotalExclusionsOf(c) - TotalExclusionsOf(oldBucketCount)],
            !.bucketCounts = Tail(pushed)]

\* ---------------------------------------------------------- CircuitBreaker
\* Settings.ReadyToTrip: the family "more than tripAfter consecutive
\* failures"; defaultReadyToTrip is the member with tripAfter = 5
\* readyToTrip with >= in place of >
readyToTrip_atLeast(c, counts) == counts.ConsecutiveFailures >= c.tripAfter

readyToTrip(c, counts) == counts.ConsecutiveFailures > c.tripAfter

\* updateExpiry that leaves the expiry of a half-open breaker as it was
updateExpiry_halfOpenKeeps(c, t) ==
    CASE c.state = "closed" ->
           IF c.interval = 0
           THEN [c EXCEPT !.expiry = 0]
           ELSE [c EXCEPT !.expiry = t + c.interval]
      [] c.state = "open" -> [c EXCEPT !.expiry = t + c.timeout]
      [] OTHER -> c

updateExpiry(c, t) ==
    CASE c.state = "closed" ->
           IF c.interval = 0
           THEN [c EXCEPT !.expiry = 0]
           ELSE [c EXCEPT !.expiry = t + c.interval]
      [] c.state = "open" -> [c EXCEPT !.expiry = t + c.timeout]
      [] OTHER -> [c EXCEPT !.expiry = 0]

\* toNewGeneration without cb.generation++
toNewGeneration_sameGeneration(c, t) ==
    updateExpiry([c EXCEPT !.windowCounts = WindowCounts_clear(@)], t)

toNewGeneration(c, t) ==
    updateExpiry([c EXCEPT !.generation = @ + 1,
                           !.windowCounts = WindowCounts_clear(@)], t)

toNewBucket(c, lastExpiry) ==
    LET bg == c.windowCounts.bucketGeneration + 1
        c1 == [c EXCEPT !.windowCounts.bucketGeneration = bg,
                        !.generation = IF bg = c.windowCounts.numBuckets
                                       THEN @ + 1 ELSE @]
    IN updateExpiry([c1 EXCEPT !.windowCounts = WindowCounts_rotate(@)],
                    lastExpiry)

\* what the callback given as Settings.OnStateChange has recorded once it
\* is called with (name, from, to): the number of calls made to it and the
\* arguments of the latest
OnStateChange_called(calls, from, to) ==
    [count |-> calls.count + 1, from |-> from, to |-> to]

\* setState that reads prev after cb.state has been assigned
setState_prevAfterAssignment(c, state, t) ==
    IF c.state = state
    THEN c
    ELSE LET c1 == toNewGeneration([c EXCEPT !.state = state], t) IN
         IF c1.onStateChange
         THEN [c1 EXCEPT !.calls = OnStateChange_called(@, c1.state, state)]
         ELSE c1

setState(c, state, t) ==
    IF c.state = state
    THEN c
    ELSE LET prev == c.state
             c1 == toNewGeneration([c EXCEPT !.state = state], t) IN
         IF c1.onStateChange
         THEN [c1 EXCEPT !.calls = OnStateChange_called(@, prev, state)]
         ELSE c1

\* currentState that leaves Open as soon as expiry is reached (!After in
\* place of Before)
currentState_atExpiry(c, t) ==
    CASE c.state = "closed" ->
           IF c.expiry # 0 /\ c.expiry < t
           THEN toNewBucket(c, c.expiry)
           ELSE c
      [] c.state = "open" ->
           IF c.expiry <= t
           THEN setState(c, "half-open", t)
           ELSE c
      [] OTHER -> c

currentState(c, t) ==
    CASE c.state = "closed" ->
           IF c.expiry # 0 /\ c.expiry < t
           THEN toNewBucket(c, c.expiry)
           ELSE c
      [] c.state = "open" ->
           IF c.expiry < t
           THEN setState(c, "half-open", t)
           ELSE c
      [] OTHER -> c

\* onSuccess whose half-open test is > in place of >=
onSuccess_closesLate(c, state, t) ==
    CASE state = "closed" ->
           [c EXCEPT !.windowCounts = WindowCounts_onSuccess(@)]
      [] state = "half-open" ->
           LET c1 == [c EXCEPT !.windowCounts = WindowCounts_onSuccess(@)] IN
           IF c1.windowCounts.Counts.ConsecutiveSuccesses > c1.maxRequests
           THEN setState(c1, "closed", t)
           ELSE c1
      [] OTHER -> c

\* onSuccess that closes a half-open breaker on its first success
onSuccess_closesOnFirst(c, state, t) ==
    CASE state = "closed" ->
           [c EXCEPT !.windowCounts = WindowCounts_onSuccess(@)]
      [] state = "half-open" ->
           setState([c EXCEPT !.windowCounts = WindowCounts_onSuccess(@)],
                    "closed", t)
      [] OTHER -> c

onSuccess(c, state, t) ==
    CASE state = "closed" ->
           [c EXCEPT !.windowCounts = WindowCounts_onSuccess(@)]
      [] state = "half-open" ->
           LET c1 == [c EXCEPT !.windowCounts = WindowCounts_onSuccess(@)] IN
           IF c1.windowCounts.Counts.ConsecutiveSuccesses >= c1.maxRequests
           THEN setState(c1, "closed", t)
           ELSE c1
      [] OTHER -> c

\* onFailure that treats a half-open failure like a closed one: counted, and
\* tripping only when readyToTrip says so
onFailure_halfOpenCounts(c, state, t) ==
    IF state \in {"closed", "half-open"}
    THEN LET c1 == [c EXCEPT !.windowCounts = WindowCounts_onFailure(@)] IN
         IF readyToTrip(c1, ToCounts(c1.windowCounts))
         THEN setState(c1, "open", t)
         ELSE c1
    ELSE c

\* onFailure that trips a closed breaker without consulting readyToTrip
onFailure_tripsAlways(c, state, t) ==
    CASE state = "closed" ->
           setState([c EXCEPT !.windowCounts = WindowCounts_onFailure(@)],
                    "open", t)
      [] state = "half-open" -> setState(c, "open", t)
      [] OTHER -> c

onFailure(c, state, t) ==
    CASE state = "closed" ->
           LET c1 == [c EXCEPT !.windowCounts = WindowCounts_onFailure(@)] IN
           IF readyToTrip(c1, ToCounts(c1.windowCounts))
           THEN setState(c1, "open", t)
           ELSE c1
      [] state = "half-open" -> setState(c, "open", t)
      [] OTHER -> c

\* the outcomes the classification of a returned error can yield
Classified(c) ==
    IF c.isExcluded THEN Outcomes ELSE Outcomes \ {"excluded"}

\* the exclusion counterpart of onSuccess / onFailure: counted in Closed
\* and HalfOpen, never a transition
onExclusion(c, state) ==
    IF state \in {"closed", "half-open"}
    THEN [c EXCEPT !.windowCounts = WindowCounts_onExclusion(@)]
    ELSE c

\* beforeRequest without the StateOpen test
beforeRequest_admitsOpen(c, t) ==
    LET c1 == currentState(c, t) IN
    IF c1.state = "half-open"
       /\ NonExcluded(c1.windowCounts.Counts) >= c1.maxRequests
    THEN [cb |-> c1, generation |-> c1.generation, err |-> "ErrTooManyRequests"]
    ELSE [cb |-> [c1 EXCEPT !.windowCounts = WindowCounts_onRequest(@)],
          generation |-> c1.generation, err |-> "nil"]

\* beforeRequest whose half-open test is > in place of >=
beforeRequest_offByOne(c, t) ==
    LET c1 == currentState(c, t) IN
    IF c1.state = "open"
    THEN [cb |-> c1, generation |-> c1.generation, err |-> "ErrOpenState"]
    ELSE IF c1.state = "half-open"
            /\ NonExcluded(c1.windowCounts.Counts) > c1.maxRequests
    THEN [cb |-> c1, generation |-> c1.generation, err |-> "ErrTooManyRequests"]
    ELSE [cb |-> [c1 EXCEPT !.windowCounts = WindowCounts_onRequest(@)],
          generation |-> c1.generation, err |-> "nil"]

\* beforeRequest returns (generation, err); the record also carries the
\* breaker as the call leaves it
beforeRequest(c, t) ==
    LET c1 == currentState(c, t) IN
    IF c1.state = "open"
    THEN [cb |-> c1, generation |-> c1.generation, err |-> "ErrOpenState"]
    ELSE IF c1.state = "half-open"
            /\ NonExcluded(c1.windowCounts.Counts) >= c1.maxRequests
    THEN [cb |-> c1, generation |-> c1.generation, err |-> "ErrTooManyRequests"]
    ELSE [cb |-> [c1 EXCEPT !.windowCounts = WindowCounts_onRequest(@)],
          generation |-> c1.generation, err |-> "nil"]

\* afterRequest without the generation test
afterRequest_noGenerationCheck(c, before, outcome, t) ==
    LET c1 == currentState(c, t) IN
    CASE outcome = "excluded" -> onExclusion(c1, c1.state)
      [] outcome = "success" -> onSuccess(c1, c1.state, t)
      [] OTHER -> onFailure(c1, c1.state, t)

\* afterRequest that knows success and failure only: what is not a success
\* is a failure
afterRequest_successOrFailure(c, before, outcome, t) ==
    LET c1 == currentState(c, t) IN
    IF c1.generation # before
    THEN c1
    ELSE IF outcome = "success"
         THEN onSuccess(c1, c1.state, t)
         ELSE onFailure(c1, c1.state, t)

afterRequest(c, before, outcome, t) ==
    LET c1 == currentState(c, t) IN
    IF c1.generation # before
    THEN c1
    ELSE CASE outcome = "excluded" -> onExclusion(c1, c1.state)
           [] outcome = "success" -> onSuccess(c1, c1.state, t)
           [] OTHER -> onFailure(c1, c1.state, t)

\* NewCircuitBreaker(st) at time t
NewCircuitBreaker(st, t) ==
    LET rolling == st.Interval > 0
                   /\ ~(st.BucketPeriod <= 0 \/ st.BucketPeriod = st.Interval)
        c == [maxRequests |-> IF st.MaxRequests = 0 THEN 1 ELSE st.MaxRequests,
              interval |-> IF st.Interval <= 0 THEN defaultInterval
                           ELSE IF rolling THEN st.BucketPeriod
                           ELSE st.Interval,
              timeout |-> IF st.Timeout <= 0 THEN defaultTimeout ELSE st.Timeout,
              tripAfter |-> IF st.ReadyToTrip = << >> THEN defaultTripAfter
                            ELSE st.ReadyToTrip[1],
              isExcluded |-> st.IsExcluded,
              onStateChange |-> st.OnStateChange,
              calls |-> [count |-> 0, from |-> "closed", to |-> "closed"],
              state |-> "closed",
              generation |-> 0,
              windowCounts |-> NewWindowCounts(
                  IF rolling THEN st.Interval \div st.BucketPeriod ELSE 1),
              expiry |-> 0]
    IN toNewGeneration(c, t)

\* ---------------------------------------------------------------- actions
\* every combination of the settings without an exclusion predicate; with
\* one, the breaker that never rotates, trips on the first failure and
\* takes one request in HalfOpen
SettingsExplored ==
    [MaxRequests : MaxRequestsSettings,
     Interval : IntervalSettings,
     BucketPeriod : BucketPeriodSettings,
     Timeout : TimeoutSettings,
     ReadyToTrip : ReadyToTripSettings,
     IsExcluded : IsExcludedSettings \ {TRUE},
     OnStateChange : OnStateChangeSettings \ {FALSE}]
    \cup
    [MaxRequests : {0},
     Interval : {0},
     BucketPeriod : BucketPeriodSettings,
     Timeout : TimeoutSettings,
     ReadyToTrip : {<<0>>},
     IsExcluded : IsExcludedSettings \ {FALSE},
     OnStateChange : OnStateChangeSettings \ {FALSE}]

\* whether the time observation of an operation run at t rotates the window
\* (currentState took its toNewBucket branch)
Rotates(c, t) ==
    currentState(c, t).windowCounts.bucketGeneration > c.windowCounts.bucketGeneration

\* no DistributedCircuitBreaker has been made of the breaker
Undistributed == << >>

\* no entities.CircuitBreaker is driven alongside the breaker
Unpaired == << >>

NoOp == [op |-> "init", from |-> "closed", err |-> "nil", outcome |-> "none",
         stale |-> FALSE, rotated |-> FALSE, streak |-> 0]

\* what an operation run at now on breaker c records about itself: the state
\* it found, the error it returned, the outcome it reported, whether the
\* generation it reported for (t) was no longer the current one, whether
\* the window was rotated between the admission of the reporting call and
\* the application of its outcome (rot), and the ConsecutiveSuccesses a
\* report found
Record(op, c, err, outcome, t, rot) ==
    [op |-> op, from |-> c.state, err |-> err, outcome |-> outcome,
     stale |-> outcome # "none" /\ currentState(c, now).generation # t,
     rotated |-> rot,
     streak |-> IF outcome = "none" THEN 0
                ELSE c.windowCounts.Counts.ConsecutiveSuccesses]

\* rotated after an operation of caller p (0: no caller) that leaves the
\* callers at npc: calls in flight see the rotation the operation made, a
\* call admitted by the operation starts afresh
RotatedAfter(p, npc, admitted) ==
    [q \in Callers |->
        IF npc[q] = "idle" \/ (q = p /\ admitted) THEN FALSE
        ELSE rotated[q] \/ Rotates(cb, now)]

\* how far the counters of breaker c are driven: to MaxCount, and as far
\* as it takes to make its readyToTrip true if that is further
CountCap(c) == IF c.tripAfter + 1 > MaxCount THEN c.tripAfter + 1 ELSE MaxCount

\* live after an operation that leaves the breaker as c and changes the
\* number of calls admitted and not completed as excluded by delta: counted
\* from zero when the operation has made the breaker HalfOpen, and not
\* counted outside HalfOpen
LiveAfter(c, delta) ==
    IF c.state # "half-open" THEN 0
    ELSE (IF cb.state = "half-open" THEN live ELSE 0) + delta

\* the aggregate counters stay within the explored range
Capped(c) ==
    /\ c.windowCounts.Counts.Requests <= CountCap(c)
    /\ c.windowCounts.Counts.TotalSuccesses + c.windowCounts.Counts.TotalFailures
         + c.windowCounts.Counts.TotalExclusions <= CountCap(c)

\* the zero Settings: every default applies
DefaultSettings ==
    [MaxRequests |-> 0, Interval |-> 0, BucketPeriod |-> 0, Timeout |-> 0,
     ReadyToTrip |-> << >>, IsExcluded |-> FALSE, OnStateChange |-> FALSE]

\* a fixed window of one tick that trips on the third consecutive failure
FixedWindowSettings ==
    [MaxRequests |-> 0, Interval |-> 1, BucketPeriod |-> 0, Timeout |-> 1,
     ReadyToTrip |-> <<2>>, IsExcluded |-> FALSE, OnStateChange |-> TRUE]

\* the state after NewCircuitBreaker(st) or NewTwoStepCircuitBreaker(st) at
\* time 1
InitWith(settings) ==
    /\ now = 1
    /\ \E st \in settings : cb = NewCircuitBreaker(st, 1)
    /\ pc = [p \in Callers |-> "idle"]
    /\ tag = [p \in Callers |-> 0]
    /\ rotated = [p \in Callers |-> FALSE]
    /\ twoStep \in BOOLEAN
    /\ mutex = 0
    /\ live = 0
    /\ last = NoOp
    /\ dist = Undistributed
    /\ entity = Unpaired

Init_Default == InitWith({DefaultSettings})

Init_FixedWindow == InitWith({FixedWindowSettings})

Init == InitWith(SettingsExplored)

\* the clock advances
Tick ==
    /\ now < MaxTime
    /\ now' = now + 1
    /\ last' = [NoOp EXCEPT !.op = "tick", !.from = cb.state]
    /\ UNCHANGED <<cb, pc, tag, rotated, twoStep, mutex, live, dist, entity>>

\* CircuitBreaker.State / TwoStepCircuitBreaker.State
State ==
    /\ cb' = currentState(cb, now)
    /\ last' = Record("State", cb, "nil", "none", 0, FALSE)
    /\ rotated' = RotatedAfter(0, pc, FALSE)
    /\ live' = LiveAfter(cb', 0)
    /\ UNCHANGED <<now, pc, tag, twoStep, mutex, dist, entity>>

\* Execute up to the call of req: beforeRequest, and on an error the return
Execute_before(p) ==
    /\ ~twoStep
    /\ pc[p] = "idle"
    /\ LET r == beforeRequest(cb, now) IN
       /\ cb' = r.cb
       /\ Capped(cb')
       /\ pc' = [pc EXCEPT ![p] = IF r.err = "nil" THEN "running" ELSE "idle"]
       /\ tag' = [tag EXCEPT ![p] = IF r.err = "nil" THEN r.generation ELSE 0]
       /\ last' = Record("Execute_before", cb, r.err, "none", r.generation, FALSE)
       /\ rotated' = RotatedAfter(p, pc', TRUE)
       /\ live' = LiveAfter(cb', IF r.err = "nil" THEN 1 ELSE 0)
    /\ UNCHANGED <<now, twoStep, mutex, dist, entity>>

\* Execute from the return of req: afterRequest with the classified outcome
Execute_after(p, outcome) ==
    /\ pc[p] = "running"
    /\ outcome \in Classified(cb)
    /\ cb' = afterRequest(cb, tag[p], outcome, now)
    /\ Capped(cb')
    /\ pc' = [pc EXCEPT ![p] = "idle"]
    /\ tag' = [tag EXCEPT ![p] = 0]
    /\ last' = Record("Execute_after", cb, "nil", outcome, tag[p],
                      rotated[p] \/ Rotates(cb, now))
    /\ rotated' = RotatedAfter(p, pc', FALSE)
    /\ live' = LiveAfter(cb', IF outcome = "excluded" /\ tag[p] = cb.generation
                              THEN -1 ELSE 0)
    /\ UNCHANGED <<now, twoStep, mutex, dist, entity>>

\* Execute whose deferred function recovers the panic of req but does not
\* report it
Execute_panic_unreported(p) ==
    /\ pc[p] = "running"
    /\ cb' = cb
    /\ pc' = [pc EXCEPT ![p] = "idle"]
    /\ tag' = [tag EXCEPT ![p] = 0]
    /\ last' = Record("Execute_panic", cb, "panic", "failure", tag[p],
                      rotated[p] \/ Rotates(cb, now))
    /\ rotated' = RotatedAfter(p, pc', FALSE)
    /\ live' = LiveAfter(cb', 0)
    /\ UNCHANGED <<now, twoStep, mutex, dist, entity>>

\* Execute from a panic of req: the deferred function recovers it, calls
\* afterRequest(generation, false) and panics again with the recovered
\* value (recorded as the err "panic" the caller is left with)
Execute_panic(p) ==
    /\ pc[p] = "running"
    /\ cb' = afterRequest(cb, tag[p], "failure", now)
    /\ Capped(cb')
    /\ pc' = [pc EXCEPT ![p] = "idle"]
    /\ tag' = [tag EXCEPT ![p] = 0]
    /\ last' = Record("Execute_panic", cb, "panic", "failure", tag[p],
                      rotated[p] \/ Rotates(cb, now))
    /\ rotated' = RotatedAfter(p, pc', FALSE)
    /\ live' = LiveAfter(cb', 0)
    /\ UNCHANGED <<now, twoStep, mutex, dist, entity>>

\* TwoStepCircuitBreaker.Allow
Allow(p) ==
    /\ twoStep
    /\ pc[p] \in {"idle", "reported"}
    /\ LET r == beforeRequest(cb, now) IN
       /\ cb' = r.cb
       /\ Capped(cb')
       /\ pc' = [pc EXCEPT ![p] = IF r.err = "nil" THEN "allowed" ELSE "idle"]
       /\ tag' = [tag EXCEPT ![p] = IF r.err = "nil" THEN r.generation ELSE 0]
       /\ last' = Record("Allow", cb, r.err, "none", r.generation, FALSE)
       /\ rotated' = RotatedAfter(p, pc', TRUE)
       /\ live' = LiveAfter(cb', IF r.err = "nil" THEN 1 ELSE 0)
    /\ UNCHANGED <<now, twoStep, mutex, dist, entity>>

\* the done callback Allow returned, invoked (for the first time or again)
\* with success (true) or failure (false)
done(p, outcome) ==
    /\ pc[p] \in {"allowed", "reported"}
    /\ outcome \in {"success", "failure"}
    /\ cb' = afterRequest(cb, tag[p], outcome, now)
    /\ Capped(cb')
    /\ pc' = [pc EXCEPT ![p] = "reported"]
    /\ last' = Record(IF pc[p] = "allowed" THEN "done" ELSE "done_again",
                      cb, "nil", outcome, tag[p],
                      rotated[p] \/ Rotates(cb, now))
    /\ rotated' = RotatedAfter(p, pc', FALSE)
    /\ live' = LiveAfter(cb', 0)
    /\ UNCHANGED <<now, tag, twoStep, mutex, dist, entity>>

Next ==
    \/ Tick
    \/ State
    \/ \E p \in Callers : Execute_before(p)
    \/ \E p \in Callers, o \in Outcomes : Execute_after(p, o)
    \/ \E p \in Callers : Execute_panic(p)
    \/ \E p \in Callers : Allow(p)
    \/ \E p \in Callers, o \in Outcomes : done(p, o)

Spec == Init /\ [][Next]_vars

\* a breaker with default settings
SpecDefault == Init_Default /\ [][Next]_vars

\* a fixed-window breaker
SpecFixedWindow == Init_FixedWindow /\ [][Next]_vars

\* ------------------------------------------- a rolling window, for longer
\* a window of two buckets of one tick each that trips on the third
\* consecutive failure
RollingSettings ==
    [MaxRequests |-> 0, Interval |-> 2, BucketPeriod |-> 1, Timeout |-> 1,
     ReadyToTrip |-> <<2>>, IsExcluded |-> FALSE, OnStateChange |-> TRUE]

Init_Rolling == InitWith({RollingSettings}) /\ ~twoStep

\* the time by which a window created at time 1 and never cleared can have
\* turned over twice (2 * numBuckets rotations, one per observation)
TwoTurnovers(c) == 2 + 2 * c.windowCounts.numBuckets * c.interval

\* the clock advances, as far as it takes the window to turn over twice
Tick_Turnover ==
    /\ now < (IF TwoTurnovers(cb) > MaxTime THEN TwoTurnovers(cb) ELSE MaxTime)
    /\ now' = now + 1
    /\ last' = [NoOp EXCEPT !.op = "tick", !.from = cb.state]
    /\ UNCHANGED <<cb, pc, tag, rotated, twoStep, mutex, live, dist, entity>>

Next_Rolling ==
    \/ Tick_Turnover
    \/ State
    \/ \E p \in Callers : Execute_before(p)
    \/ \E p \in Callers, o \in Outcomes : Execute_after(p, o)

SpecRolling == Init_Rolling /\ [][Next_Rolling]_vars

\* ------------------------------------------- every shape of window
\* Interval and BucketPeriod in every order: BucketPeriod zero, below,
\* equal to and above Interval
WindowSettings ==
    [MaxRequests : {0},
     Interval : {1, 2},
     BucketPeriod : {0, 1, 2, 3},
     Timeout : TimeoutSettings,
     ReadyToTrip : ReadyToTripSettings,
     IsExcluded : {FALSE},
     OnStateChange : {TRUE}]

Init_Windows == InitWith(WindowSettings)

SpecWindows == Init_Windows /\ [][Next]_vars

\* ------------------------------------------- the mutex, step by step
\* The same operations of a CircuitBreaker with cb.mutex made explicit:
\* a method first takes the mutex (Lock), then runs its body and, by its
\* deferred Unlock, releases the mutex as it returns.  While a caller is
\* inside a method, pc holds the method's name.
Methods == {"beforeRequest", "afterRequest", "State", "Counts"}

\* a breaker without window and without exclusions that trips on the second
\* consecutive failure
MutexSettings ==
    [MaxRequests |-> 0, Interval |-> 0, BucketPeriod |-> 0, Timeout |-> 1,
     ReadyToTrip |-> <<1>>, IsExcluded |-> FALSE, OnStateChange |-> TRUE]

Init_Mutex == InitWith({MutexSettings}) /\ ~twoStep

\* cb.mutex.Lock() at the head of method m, called by p: beforeRequest at
\* the start of Execute, afterRequest once the closure has returned or
\* panicked, State and Counts by a caller not inside Execute
Lock(p, m) ==
    /\ mutex = 0
    /\ m \in Methods
    /\ pc[p] = IF m = "afterRequest" THEN "running" ELSE "idle"
    /\ m = "beforeRequest" => cb.windowCounts.Counts.Requests < CountCap(cb)
    /\ mutex' = p
    /\ pc' = [pc EXCEPT ![p] = m]
    /\ UNCHANGED <<cb, now, tag, rotated, twoStep, live, last, dist, entity>>

\* beforeRequest that returns without its deferred Unlock
Return_beforeRequest_locked(p) ==
    /\ pc[p] = "beforeRequest"
    /\ mutex = p
    /\ LET r == beforeRequest(cb, now) IN
       /\ cb' = r.cb
       /\ pc' = [pc EXCEPT ![p] = IF r.err = "nil" THEN "running" ELSE "idle"]
       /\ tag' = [tag EXCEPT ![p] = IF r.err = "nil" THEN r.generation ELSE 0]
       /\ last' = Record("Execute_before", cb, r.err, "none", r.generation, FALSE)
       /\ rotated' = RotatedAfter(p, pc', TRUE)
       /\ live' = LiveAfter(cb', IF r.err = "nil" THEN 1 ELSE 0)
    /\ UNCHANGED <<now, twoStep, mutex, dist, entity>>

\* the body of beforeRequest and its return to Execute, which goes on to
\* run the closure or returns the error
Return_beforeRequest(p) ==
    /\ pc[p] = "beforeRequest"
    /\ mutex = p
    /\ mutex' = 0
    /\ LET r == beforeRequest(cb, now) IN
       /\ cb' = r.cb
       /\ pc' = [pc EXCEPT ![p] = IF r.err = "nil" THEN "running" ELSE "idle"]
       /\ tag' = [tag EXCEPT ![p] = IF r.err = "nil" THEN r.generation ELSE 0]
       /\ last' = Record("Execute_before", cb, r.err, "none", r.generation, FALSE)
       /\ rotated' = RotatedAfter(p, pc', TRUE)
       /\ live' = LiveAfter(cb', IF r.err = "nil" THEN 1 ELSE 0)
    /\ UNCHANGED <<now, twoStep, dist, entity>>

\* the body of afterRequest and its return, Execute's last step
Return_afterRequest(p, outcome) ==
    /\ pc[p] = "afterRequest"
    /\ mutex = p
    /\ mutex' = 0
    /\ outcome \in Classified(cb)
    /\ cb' = afterRequest(cb, tag[p], outcome, now)
    /\ pc' = [pc EXCEPT ![p] = "idle"]
    /\ tag' = [tag EXCEPT ![p] = 0]
    /\ last' = Record("Execute_after", cb, "nil", outcome, tag[p],
                      rotated[p] \/ Rotates(cb, now))
    /\ rotated' = RotatedAfter(p, pc', FALSE)
    /\ live' = LiveAfter(cb', 0)
    /\ UNCHANGED <<now, twoStep, dist, entity>>

\* the body of State and its return
Return_State(p) ==
    /\ pc[p] = "State"
    /\ mutex = p
    /\ mutex' = 0
    /\ cb' = currentState(cb, now)
    /\ pc' = [pc EXCEPT ![p] = "idle"]
    /\ last' = Record("State", cb, "nil", "none", 0, FALSE)
    /\ rotated' = RotatedAfter(0, pc', FALSE)
    /\ live' = LiveAfter(cb', 0)
    /\ UNCHANGED <<now, tag, twoStep, dist, entity>>

\* the body of Counts (a copy of the counters) and its return
Return_Counts(p) ==
    /\ pc[p] = "Counts"
    /\ mutex = p
    /\ mutex' = 0
    /\ pc' = [pc EXCEPT ![p] = "idle"]
    /\ last' = [NoOp EXCEPT !.op = "Counts", !.from = cb.state]
    /\ UNCHANGED <<cb, now, tag, rotated, twoStep, live, dist, entity>>

Next_Mutex ==
    \/ Tick
    \/ \E p \in Callers, m \in Methods : Lock(p, m)
    \/ \E p \in Callers : Return_beforeRequest(p)
    \/ \E p \in Callers, o \in Outcomes : Return_afterRequest(p, o)
    \/ \E p \in Callers : Return_State(p)
    \/ \E p \in Callers : Return_Counts(p)

SpecMutex == Init_Mutex /\ [][Next_Mutex]_vars

\* ------------------------------------------- the distributed breaker
\* DistributedCircuitBreaker instances of one name (one key of the store),
\* each in its own process with its own CircuitBreaker.  A call is two
\* steps, one per access to the store: the first reads the shared state,
\* injects it and runs the local operation up to the closure (_get), the
\* second reports the outcome, extracts and writes the shared state (_set).
Instances == {1, 2}

\* what an access to the SharedDataStore can do: answer ("none"), fail and
\* hand back no data ("unavailable"), and for GetData also fail while
\* handing back data ("partial")
GetFaults == {"none", "unavailable", "partial"}
SetFaults == {"none", "unavailable"}

\* the errors a store returns
StoreErrors == {"store unavailable"}

\* a breaker that never rotates, trips on the first failure
\* and takes one request in HalfOpen
DistributedSettings ==
    [MaxRequests |-> 0, Interval |-> 0, BucketPeriod |-> 0, Timeout |-> 1,
     ReadyToTrip |-> <<0>>, IsExcluded |-> FALSE, OnStateChange |-> FALSE]

\* the integer a State is encoded as
StateOrdinal(s) ==
    CASE s = "closed" -> 0
      [] s = "half-open" -> 1
      [] OTHER -> 2

StateOfOrdinal(n) ==
    CASE n = 0 -> "closed"
      [] n = 1 -> "half-open"
      [] OTHER -> "open"

\* var state SharedState
ZeroSharedState ==
    [State |-> "closed", Generation |-> 0, Counts |-> ZeroCounts, Expiry |-> 0]

\* json.Marshal(state): the fields in the order of the struct, State as
\* its integer, Counts as its fields in order
Marshal(state) ==
    <<StateOrdinal(state.State),
      state.Generation,
      <<state.Counts.Requests, state.Counts.TotalSuccesses,
        state.Counts.TotalFailures, state.Counts.ConsecutiveSuccesses,
        state.Counts.ConsecutiveFailures, TotalExclusionsOf(state.Counts)>>,
      state.Expiry>>

\* json.Unmarshal(data, &state) of data that Marshal produced
Unmarshal(data) ==
    [State |-> StateOfOrdinal(data[1]),
     Generation |-> data[2],
     Counts |-> [Requests |-> data[3][1], TotalSuccesses |-> data[3][2],
                 TotalFailures |-> data[3][3],
                 ConsecutiveSuccesses |-> data[3][4],
                 ConsecutiveFailures |-> data[3][5],
                 TotalExclusions |-> data[3][6]],
     Expiry |-> data[4]]

\* store.GetData(ctx, key) of a store that holds data under the key (no
\* bytes when the key is absent)
GetData(data, fault) ==
    CASE fault = "none" ->
           [data |-> data, err |-> IF data = << >> THEN "not found" ELSE "nil"]
      [] fault = "partial" ->
           [data |-> data, err |-> "store unavailable"]
      [] OTHER ->
           [data |-> << >>, err |-> "store unavailable"]

\* store.SetData(ctx, key, bytes): what the store holds afterwards, and err
SetData(data, bytes, fault) ==
    IF fault = "none"
    THEN [data |-> bytes, err |-> "nil"]
    ELSE [data |-> data, err |-> "store unavailable"]

\* getSharedState of an instance whose store field is store ("nil" or
\* "set"): (state, err)
getSharedState(store, data, fault) ==
    IF store = "nil"
    THEN [state |-> ZeroSharedState, err |-> "ErrNoSharedStore"]
    ELSE LET r == GetData(data, fault) IN
         IF Len(r.data) = 0
         THEN [state |-> ZeroSharedState, err |-> "ErrNoSharedState"]
         ELSE IF r.err # "nil"
         THEN [state |-> ZeroSharedState, err |-> r.err]
         ELSE [state |-> Unmarshal(r.data), err |-> "nil"]

\* setSharedState: what the store holds afterwards, and err
setSharedState(store, data, state, fault) ==
    IF store = "nil"
    THEN [data |-> data, err |-> "ErrNoSharedStore"]
    ELSE SetData(data, Marshal(state), fault)

\* inject that leaves dcb.state as it is
inject_keepsState(c, shared) ==
    [c EXCEPT !.generation = shared.Generation,
              !.windowCounts.Counts = shared.Counts,
              !.windowCounts.bucketCounts = <<shared.Counts>>,
              !.expiry = shared.Expiry]

\* inject: dcb.counts is the Counts of the breaker's one window, the
\* aggregate and its single bucket alike
inject(c, shared) ==
    [c EXCEPT !.state = shared.State,
              !.generation = shared.Generation,
              !.windowCounts.Counts = shared.Counts,
              !.windowCounts.bucketCounts = <<shared.Counts>>,
              !.expiry = shared.Expiry]

extract(c) ==
    [State |-> c.state, Generation |-> c.generation,
     Counts |-> ToCounts(c.windowCounts), Expiry |-> c.expiry]

\* an instance: its CircuitBreaker (cb), its store field, where its one
\* caller is (pc: "new" before the constructor, "idle", "State" between the
\* two steps of State, "running" inside the closure of Execute, "rejected"
\* after an admission error), the generation beforeRequest returned (tag),
\* and the value the call in flight is going to return (result)
NewInstance ==
    [cb |-> NewCircuitBreaker(DistributedSettings, 1), store |-> "set",
     pc |-> "new", tag |-> 0, result |-> "none"]

\* no Execute has tripped the breaker yet
NoTrip == [by |-> 0, data |-> << >>]

\* the fault of the GetData a getSharedState makes: none when the store
\* field is nil, as GetData is not called then
Asked(store, fault) == IF store = "nil" THEN "none" ELSE fault

\* what a step records about itself: the operation, the instance, the
\* fault of its GetData, the err the step ends with, the State it computed
\* and, for the step that ends a constructor or an Execute, the bytes the
\* store held as the step began (history)
Call(op, i, fault, err, result, found) ==
    [op |-> op, inst |-> i, fault |-> fault, err |-> err, result |-> result,
     found |-> found]

\* the instances before their constructors have run, and an empty store
Init_Construction ==
    /\ entity = Unpaired
    /\ now = 1
    /\ cb = NewCircuitBreaker(DistributedSettings, 1)
    /\ pc = [p \in Callers |-> "idle"]
    /\ tag = [p \in Callers |-> 0]
    /\ rotated = [p \in Callers |-> FALSE]
    /\ twoStep = FALSE
    /\ mutex = 0
    /\ live = 0
    /\ last = NoOp
    /\ dist = [data |-> << >>,
               inst |-> [i \in Instances |-> NewInstance],
               trip |-> NoTrip,
               last |-> Call("init", 0, "none", "nil", "none", << >>)]

\* the instances once the constructor of each has run at time 1 against a
\* store that answers: the first has written the initial state, the
\* others have found it
Init_Distributed ==
    /\ entity = Unpaired
    /\ now = 1
    /\ cb = NewCircuitBreaker(DistributedSettings, 1)
    /\ pc = [p \in Callers |-> "idle"]
    /\ tag = [p \in Callers |-> 0]
    /\ rotated = [p \in Callers |-> FALSE]
    /\ twoStep = FALSE
    /\ mutex = 0
    /\ live = 0
    /\ last = NoOp
    /\ dist = [data |-> Marshal(extract(NewCircuitBreaker(DistributedSettings, 1))),
               inst |-> [i \in Instances |-> [NewInstance EXCEPT !.pc = "idle"]],
               trip |-> NoTrip,
               last |-> Call("init", 0, "none", "nil", "none", << >>)]

\* the clock advances
Tick_Distributed ==
    /\ now < MaxTime
    /\ now' = now + 1
    /\ UNCHANGED <<cb, pc, tag, rotated, twoStep, mutex, live, last, dist, entity>>

\* NewDistributedCircuitBreaker(ctx, store, settings) of
\* src/v2/distributed_gobreaker.go: the initial state is written whatever
\* the store holds, and the breaker is returned along with the err
NewDistributedCircuitBreaker(i, store, sf) ==
    /\ dist.inst[i].pc = "new"
    /\ IF store = "nil"
       THEN dist' = [dist EXCEPT
                !.last = Call("New", i, "none", "ErrNoSharedStore", "none", dist.data)]
       ELSE LET c == NewCircuitBreaker(DistributedSettings, now)
                s == setSharedState(store, dist.data, extract(c), sf)
            IN dist' = [dist EXCEPT
                !.data = s.data,
                !.inst[i] = [NewInstance EXCEPT !.cb = c, !.pc = "idle"],
                !.last = Call("New", i, "none", s.err, "none", dist.data)]
    /\ UNCHANGED <<cb, now, pc, tag, rotated, twoStep, mutex, live, last, entity>>

\* NewDistributedCircuitBreaker(ctx, store, settings) of the later revision:
\* the initial state is written when getSharedState says ErrNoSharedState,
\* and no breaker is returned with an err
NewDistributedCircuitBreaker_seeding(i, store, gf, sf) ==
    /\ dist.inst[i].pc = "new"
    /\ IF store = "nil"
       THEN dist' = [dist EXCEPT
                !.last = Call("New", i, "none", "ErrNoSharedStore", "none", dist.data)]
       ELSE LET c == NewCircuitBreaker(DistributedSettings, now)
                g == getSharedState(store, dist.data, gf)
                s == IF g.err = "ErrNoSharedState"
                     THEN setSharedState(store, dist.data, extract(c), sf)
                     ELSE [data |-> dist.data, err |-> g.err]
            IN dist' = [dist EXCEPT
                !.data = s.data,
                !.inst[i] = IF s.err # "nil" THEN @
                            ELSE [NewInstance EXCEPT !.cb = c, !.pc = "idle"],
                !.last = Call("New", i, gf, s.err, "none", dist.data)]
    /\ UNCHANGED <<cb, now, pc, tag, rotated, twoStep, mutex, live, last, entity>>

\* dcb.store = nil, as TestDistributedCircuitBreakerFallback does
StoreLost(i) ==
    /\ dist.inst[i].pc = "idle"
    /\ dist.inst[i].store = "set"
    /\ dist' = [dist EXCEPT
            !.inst[i].store = "nil",
            !.last = Call("StoreLost", i, "none", "nil", "none", << >>)]
    /\ UNCHANGED <<cb, now, pc, tag, rotated, twoStep, mutex, live, last, entity>>

\* DistributedCircuitBreaker.State up to its setSharedState: getSharedState,
\* and on an error the return; else inject, CircuitBreaker.State, extract
DCB_State_get(i, gf) ==
    /\ dist.inst[i].pc = "idle"
    /\ LET d == dist.inst[i]
           g == getSharedState(d.store, dist.data, gf)
           c == currentState(inject(d.cb, g.state), now)
       IN IF g.err # "nil"
          THEN dist' = [dist EXCEPT
                   !.last = Call("State", i, Asked(d.store, gf), g.err, g.state.State, << >>)]
          ELSE dist' = [dist EXCEPT
                   !.inst[i] = [d EXCEPT !.cb = c, !.pc = "State",
                                         !.result = c.state],
                   !.last = Call("State_get", i, gf, "nil", c.state, << >>)]
    /\ UNCHANGED <<cb, now, pc, tag, rotated, twoStep, mutex, live, last, entity>>

\* DistributedCircuitBreaker.State from its setSharedState
DCB_State_set(i, sf) ==
    /\ dist.inst[i].pc = "State"
    /\ LET d == dist.inst[i]
           s == setSharedState(d.store, dist.data, extract(d.cb), sf)
       IN dist' = [dist EXCEPT
              !.data = s.data,
              !.inst[i] = [d EXCEPT !.pc = "idle", !.result = "none"],
              !.last = Call("State", i, "none", s.err, d.result, << >>)]
    /\ UNCHANGED <<cb, now, pc, tag, rotated, twoStep, mutex, live, last, entity>>

\* DistributedCircuitBreaker.Execute up to the call of req: getSharedState,
\* and on an error the return; else inject and CircuitBreaker.Execute up to
\* the call of req (beforeRequest)
DCB_Execute_get(i, gf) ==
    /\ dist.inst[i].pc = "idle"
    /\ LET d == dist.inst[i]
           g == getSharedState(d.store, dist.data, gf)
           r == beforeRequest(inject(d.cb, g.state), now)
       IN IF g.err # "nil"
          THEN dist' = [dist EXCEPT
                   !.last = Call("Execute", i, Asked(d.store, gf), g.err, "none", << >>)]
          ELSE /\ Capped(r.cb)
               /\ dist' = [dist EXCEPT
                   !.inst[i] = [d EXCEPT
                       !.cb = r.cb,
                       !.pc = IF r.err = "nil" THEN "running" ELSE "rejected",
                       !.tag = IF r.err = "nil" THEN r.generation ELSE 0,
                       !.result = r.err],
                   !.last = Call("Execute_get", i, gf, r.err, "none", << >>)]
    /\ UNCHANGED <<cb, now, pc, tag, rotated, twoStep, mutex, live, last, entity>>

\* the breaker of a call in flight as CircuitBreaker.Execute leaves it when
\* req ends with outcome
Reported(d, outcome) ==
    IF d.pc = "running"
    THEN afterRequest(d.cb, d.tag, outcome, now)
    ELSE d.cb

\* the rest of Execute for an instance as d whose breaker the call leaves
\* as c: extract, setSharedState and the return
Execute_return(i, d, c, outcome, sf) ==
    LET s == setSharedState(d.store, dist.data, extract(c), sf)
        err == IF s.err # "nil" THEN s.err
               ELSE IF d.pc = "rejected" THEN d.result
               ELSE IF outcome = "failure" THEN "fail"
               ELSE "nil"
    IN dist' = [dist EXCEPT
           !.data = s.data,
           !.inst[i] = [d EXCEPT !.cb = c, !.pc = "idle", !.tag = 0,
                                 !.result = "none"],
           !.trip = IF s.err = "nil" /\ d.pc = "running"
                       /\ d.cb.state # "open" /\ c.state = "open"
                    THEN [by |-> i, data |-> s.data]
                    ELSE @,
           !.last = Call("Execute", i, "none", err, "none", dist.data)]

\* Execute that reads the shared state again before it reports the outcome
DCB_Execute_set_reloading(i, outcome, sf) ==
    /\ dist.inst[i].pc \in {"running", "rejected"}
    /\ outcome \in {"success", "failure"}
    /\ dist.inst[i].pc = "rejected" => outcome = "failure"
    /\ LET d == dist.inst[i]
           g == getSharedState(d.store, dist.data, "none")
           d1 == IF g.err = "nil"
                 THEN [d EXCEPT !.cb = inject(d.cb, g.state)]
                 ELSE d
           c == Reported(d1, outcome)
       IN /\ Capped(c)
          /\ Execute_return(i, d, c, outcome, sf)
    /\ UNCHANGED <<cb, now, pc, tag, rotated, twoStep, mutex, live, last, entity>>

\* DistributedCircuitBreaker.Execute from the return of req (or from the
\* admission error): afterRequest with the outcome, extract,
\* setSharedState and the return
DCB_Execute_set(i, outcome, sf) ==
    /\ dist.inst[i].pc \in {"running", "rejected"}
    /\ outcome \in {"success", "failure"}
    /\ dist.inst[i].pc = "rejected" => outcome = "failure"
    /\ LET d == dist.inst[i]
           c == Reported(d, outcome)
       IN /\ Capped(c)
          /\ Execute_return(i, d, c, outcome, sf)
    /\ UNCHANGED <<cb, now, pc, tag, rotated, twoStep, mutex, live, last, entity>>

\* the calls of instances whose store answers every access
Next_Distributed ==
    \/ Tick_Distributed
    \/ \E i \in Instances : DCB_State_get(i, "none")
    \/ \E i \in Instances : DCB_State_set(i, "none")
    \/ \E i \in Instances : DCB_Execute_get(i, "none")
    \/ \E i \in Instances, o \in Outcomes : DCB_Execute_set(i, o, "none")

SpecDistributed == Init_Distributed /\ [][Next_Distributed]_vars

\* the constructors and the calls of instances whose store may fail any
\* access, and whose store field may be nil, all within one tick
Next_Construction ==
    \/ \E i \in Instances, st \in {"nil", "set"}, sf \in SetFaults :
          NewDistributedCircuitBreaker(i, st, sf)
    \/ \E i \in Instances, st \in {"nil", "set"}, gf \in GetFaults,
          sf \in SetFaults : NewDistributedCircuitBreaker_seeding(i, st, gf, sf)
    \/ \E i \in Instances : StoreLost(i)
    \/ \E i \in Instances, gf \in GetFaults : DCB_State_get(i, gf)
    \/ \E i \in Instances, sf \in SetFaults : DCB_State_set(i, sf)
    \/ \E i \in Instances, gf \in GetFaults : DCB_Execute_get(i, gf)
    \/ \E i \in Instances, o \in Outcomes, sf \in SetFaults :
          DCB_Execute_set(i, o, sf)

SpecConstruction == Init_Construction /\ [][Next_Construction]_vars

\* ------------------------------------------------------------ sanity
Admissions == {"Execute_before", "Allow"}
Reports == {"Execute_after", "Execute_panic", "done", "done_again"}
Operations == {"State"} \cup Admissions \cup Reports
InFlight(p) == pc[p] \in {"running", "allowed"}

\* no subtraction of rotate goes below zero and no counter leaves the
\* explored range, so the counters' width (uint32) plays no part
CountersInRange ==
    /\ \A f \in DOMAIN ZeroCounts : cb.windowCounts.Counts[f] \in 0..CountCap(cb)
    /\ \A i \in 1..Len(cb.windowCounts.bucketCounts) :
         \A f \in DOMAIN ZeroCounts :
            cb.windowCounts.bucketCounts[i][f] \in 0..CountCap(cb)
    /\ Len(cb.windowCounts.bucketCounts) >= 1

\* ------------------------------------------------------------ claims
\* the breaker as the operation's time observation (currentState) leaves it
Observed == currentState(cb, now)

\* the step admits no call: nobody starts running a closure or obtains a
\* done callback
NobodyAdmitted ==
    \A p \in Callers :
        pc'[p] \in {"running", "allowed"} => pc'[p] = pc[p] /\ tag'[p] = tag[p]

\* the step admits a call, tagged with generation g
SomeoneAdmitted(g) ==
    \E p \in Callers :
        /\ pc[p] \notin {"running", "allowed"}
        /\ pc'[p] \in {"running", "allowed"}
        /\ tag'[p] = g

\* C1: while the breaker is Open and its expiry is not before now, every
\* admission attempt (Execute or Allow) returns ErrOpenState, leaves the
\* breaker as it was and starts no closure (nor hands out a done callback).
C1_OpenRejects ==
    [][ (cb.state = "open" /\ ~(cb.expiry < now) /\ last'.op \in Admissions)
        => (last'.err = "ErrOpenState" /\ cb' = cb /\ NobodyAdmitted) ]_vars

C1_Witness ==
    /\ last.op \in Admissions
    /\ last.from = "open"
    /\ last.err = "ErrOpenState"
    /\ cb.state = "open"
    /\ now < cb.expiry

\* C2: no step takes the breaker from Open to Closed.
C2_NoOpenToClosed ==
    [][ ~(cb.state = "open" /\ cb'.state = "closed") ]_vars

\* Closed again after Open, entered from HalfOpen
C2_Witness ==
    /\ cb.state = "closed"
    /\ last.from = "half-open"
    /\ cb.generation >= 4

\* C3: in HalfOpen, a Failure reported for the current generation moves the
\* breaker to Open with every counter zero and expiry = now + timeout,
\* whatever the counters were.
C3_HalfOpenFailureReopens ==
    [][ (cb.state = "half-open" /\ last'.op \in Reports
           /\ last'.outcome = "failure" /\ ~last'.stale)
        => (/\ cb'.state = "open"
            /\ cb'.windowCounts.Counts = ZeroCounts
            /\ cb'.expiry = now + cb.timeout
            /\ cb'.generation = cb.generation + 1) ]_vars

\* a half-open failure reported after a success had been counted
C3_Witness ==
    /\ last.op \in Reports
    /\ last.from = "half-open"
    /\ last.outcome = "failure"
    /\ ~last.stale
    /\ cb.state = "open"
    /\ last.streak > 0

\* C4: whenever a step takes the breaker from HalfOpen to Closed, the step
\* reports a Success for the current generation, and ConsecutiveSuccesses
\* with that success counted is at least maxRequests.
C4_CloseNeedsSuccesses ==
    [][ (cb.state = "half-open" /\ cb'.state = "closed")
        => (/\ last'.op \in Reports
            /\ last'.outcome = "success"
            /\ ~last'.stale
            /\ WindowCounts_onSuccess(cb.windowCounts).Counts.ConsecutiveSuccesses
                 >= cb.maxRequests) ]_vars

C4_Witness ==
    /\ last.op \in Reports
    /\ last.from = "half-open"
    /\ cb.state = "closed"
    /\ cb.maxRequests = 2

\* C5: whenever a step takes the breaker from Closed to Open, the step
\* reports a Failure for the current generation, found the breaker Closed,
\* and readyToTrip holds of the counts with that failure counted.
C5_TripNeedsReadyToTrip ==
    [][ (cb.state = "closed" /\ cb'.state = "open")
        => (/\ last'.op \in Reports
            /\ last'.outcome = "failure"
            /\ ~last'.stale
            /\ Observed.state = "closed"
            /\ readyToTrip(Observed,
                           WindowCounts_onFailure(Observed.windowCounts).Counts)) ]_vars

C5_Witness ==
    /\ last.op \in Reports
    /\ last.from = "closed"
    /\ last.outcome = "failure"
    /\ cb.state = "open"

\* C6 as stated: an operation that finds the breaker Open moves it to
\* HalfOpen if and only if expiry <= now, now = expiry included.
C6_AsStated ==
    [][ (cb.state = "open" /\ last'.op \in Operations)
        => (cb'.state = IF cb.expiry <= now THEN "half-open" ELSE "open") ]_vars

\* C6 as amended: an operation (State, admission, or the report of any
\* outcome) that finds the breaker Open moves it to HalfOpen if and only if
\* expiry < now; at now = expiry, and before, the breaker stays Open,
\* whatever outcome is reported.
C6_OpenToHalfOpenAfterExpiry ==
    [][ (cb.state = "open" /\ last'.op \in Operations)
        => (cb'.state = IF cb.expiry < now THEN "half-open" ELSE "open") ]_vars

\* an operation observed now = expiry and the breaker is still Open
C6_Witness ==
    /\ last.op \in Operations
    /\ last.from = "open"
    /\ cb.state = "open"
    /\ cb.expiry = now

C8_StaleOutcomeDropped ==
    [][ (last'.op \in Reports /\ last'.stale) => cb' = Observed ]_vars

\* a stale outcome reported once more through a done callback already used
C8_Witness ==
    /\ last.op = "done_again"
    /\ last.stale
    /\ last.outcome \in {"success", "failure"}

\* C9: in a fixed-window breaker (interval > 0, one bucket), the report of a
\* call admitted before a closed-state rotation and reported after it leaves
\* the breaker as the time observation of the report alone leaves it.
C9_RotationDropsEarlierCalls ==
    [][ (cb.interval > 0 /\ cb.windowCounts.numBuckets = 1
           /\ last'.op \in Reports /\ last'.rotated)
        => cb' = Observed ]_vars

\* C10: after every step that changes the state, every counter is zero; when
\* the step is an admission (Open to HalfOpen on its time observation, then
\* the request admitted), the counters are zero right after the transition
\* and the admitted request is the only thing counted since.
C10_TransitionClearsCounts ==
    [][ (cb'.state # cb.state)
        => /\ Observed.state # cb.state => Observed.windowCounts.Counts = ZeroCounts
           /\ cb'.windowCounts.Counts =
                IF last'.op \in Admissions /\ last'.err = "nil"
                THEN [ZeroCounts EXCEPT !.Requests = 1]
                ELSE ZeroCounts
           /\ cb'.windowCounts.bucketCounts = <<cb'.windowCounts.Counts>> ]_vars

\* Closed to Open with failures counted just before
C10_Witness ==
    /\ last.op \in Reports
    /\ last.from = "closed"
    /\ cb.state = "open"
    /\ cb.windowCounts.Counts = ZeroCounts

\* the breaker is a fixed-window one: interval > 0 and a single bucket
FixedWindow(c) == c.interval > 0 /\ c.windowCounts.numBuckets = 1

\* the counters the README documents (Counts of src/v2/gobreaker.go)
DocumentedCounters ==
    {"Requests", "TotalSuccesses", "TotalFailures",
     "ConsecutiveSuccesses", "ConsecutiveFailures"}

\* C11: in a fixed-window breaker, right after the closed-state rotation an
\* operation makes on its time observation, Requests, TotalSuccesses,
\* TotalFailures, ConsecutiveSuccesses and ConsecutiveFailures are all zero.
C11_RotationClearsCounts ==
    [][ (last'.op \in Operations /\ cb.state = "closed" /\ FixedWindow(cb)
           /\ Rotates(cb, now))
        => \A f \in DocumentedCounters : Observed.windowCounts.Counts[f] = 0 ]_vars

\* C12: no step decreases generation, and every step that changes the state
\* increases it.
C12_GenerationMonotonic ==
    [][ /\ cb'.generation >= cb.generation
        /\ cb'.state # cb.state => cb'.generation > cb.generation ]_vars

\* the breaker has gone round: Closed, Open, HalfOpen and Closed or Open again
C12_Witness ==
    /\ last.from = "half-open"
    /\ cb.state \in {"closed", "open"}
    /\ cb.generation >= 4

\* C13: when the closure of an Execute call panics, the caller is left with
\* the panic and the breaker is left as the report of one Failure leaves
\* it: while the call's generation is current, TotalFailures and
\* ConsecutiveFailures are one more and ConsecutiveSuccesses is zero, the
\* rest unchanged, unless that failure trips or reopens the breaker
\* (counters then cleared); a stale call's failure is dropped.
C13_PanicIsOneFailure ==
    [][ \A p \in Callers :
          (last'.op = "Execute_panic" /\ pc[p] = "running" /\ pc'[p] = "idle")
          => /\ last'.err = "panic"
             /\ IF Observed.generation # tag[p]
                THEN cb' = Observed
                ELSE LET before == Observed.windowCounts.Counts
                         counted == [before EXCEPT
                                       !.TotalFailures = @ + 1,
                                       !.ConsecutiveFailures = @ + 1,
                                       !.ConsecutiveSuccesses = 0]
                     IN IF Observed.state = "closed" /\ ~readyToTrip(Observed, counted)
                        THEN /\ cb'.windowCounts.Counts = counted
                             /\ cb' = [Observed EXCEPT
                                         !.windowCounts = WindowCounts_onFailure(@)]
                        ELSE /\ cb'.state = "open"
                             /\ cb'.windowCounts.Counts = ZeroCounts ]_vars

\* a panic counted as the one failure of a Closed breaker
C13_Witness ==
    /\ last.op = "Execute_panic"
    /\ last.err = "panic"
    /\ ~last.stale
    /\ cb.state = "closed"
    /\ cb.windowCounts.Counts.TotalFailures = 1
    /\ cb.windowCounts.Counts.Requests = 1

\* the return of whichever method caller p is inside
Returns(p) ==
    \/ Return_beforeRequest(p)
    \/ \E o \in Outcomes : Return_afterRequest(p, o)
    \/ Return_State(p)
    \/ Return_Counts(p)

\* C14: a caller whose closure is executing does not hold the mutex: the
\* mutex is held only by a caller inside beforeRequest, afterRequest, State
\* or Counts, who can return (and unlock) without waiting for anybody; and
\* while the mutex is free, any other caller can take it for State or
\* Counts, or for afterRequest if its own closure has returned.
C14_ClosureRunsUnlocked ==
    /\ \A p \in Callers : pc[p] = "running" => mutex # p
    /\ mutex # 0 => mutex \in Callers /\ pc[mutex] \in Methods /\ ENABLED Returns(mutex)
    /\ mutex = 0 =>
         \A q \in Callers :
            /\ pc[q] = "idle" => ENABLED Lock(q, "State") /\ ENABLED Lock(q, "Counts")
            /\ pc[q] = "running" => ENABLED Lock(q, "afterRequest")

\* while one caller's closure is executing, another is inside afterRequest,
\* having been admitted and run its own closure
C14_Witness ==
    \E p, q \in Callers :
        /\ pc[p] = "running"
        /\ pc[q] = "afterRequest"
        /\ mutex = q
        /\ tag[p] = cb.generation
        /\ tag[q] = cb.generation

Running == {p \in Callers : pc[p] = "running" /\ tag[p] = cb.generation}

\* C16: on a Closed CircuitBreaker that never rotates, as long as no call
\* has failed, Requests is the number of successes counted plus the calls
\* still running, and ConsecutiveSuccesses = TotalSuccesses,
\* ConsecutiveFailures = 0; every admission adds one to Requests and every
\* success one to TotalSuccesses and ConsecutiveSuccesses, whatever else is
\* in flight.  So n overlapping successful calls end with Counts{n, n, 0, n, 0}.
C16_NoUpdateLost ==
    /\ [](  (~twoStep /\ cb.state = "closed" /\ cb.interval = 0
               /\ cb.windowCounts.Counts.TotalFailures = 0
               /\ cb.windowCounts.Counts.TotalExclusions = 0)
            => /\ cb.windowCounts.Counts.Requests
                    = cb.windowCounts.Counts.TotalSuccesses + Cardinality(Running)
               /\ cb.windowCounts.Counts.ConsecutiveSuccesses
                    = cb.windowCounts.Counts.TotalSuccesses
               /\ cb.windowCounts.Counts.ConsecutiveFailures = 0 )
    /\ [][ (~twoStep /\ cb.state = "closed" /\ cb.interval = 0) =>
             /\ (last'.op = "Execute_before" /\ last'.err = "nil")
                => cb'.windowCounts.Counts =
                     [cb.windowCounts.Counts EXCEPT !.Requests = @ + 1]
             /\ (last'.op = "Execute_after" /\ last'.outcome = "success"
                   /\ ~last'.stale)
                => cb'.windowCounts.Counts =
                     [cb.windowCounts.Counts EXCEPT
                        !.TotalSuccesses = @ + 1,
                        !.ConsecutiveSuccesses = @ + 1,
                        !.ConsecutiveFailures = 0] ]_vars

\* two calls that ran at the same time and a third have all succeeded
C16_Witness ==
    /\ ~twoStep
    /\ cb.state = "closed"
    /\ last.op = "Execute_after"
    /\ last.outcome = "success"
    /\ \A p \in Callers : pc[p] = "idle"
    /\ cb.windowCounts.Counts =
         [ZeroCounts EXCEPT !.Requests = 3, !.TotalSuccesses = 3,
                            !.ConsecutiveSuccesses = 3]

\* C17: with an OnStateChange callback set, every step that changes the
\* state calls it exactly once, with the state before and the state after
\* the step, within that same step (so the calls come in the order of the
\* transitions); a step that leaves the state unchanged does not call it.
C17_OnStateChangeOncePerTransition ==
    [][ cb.onStateChange =>
          cb'.calls = IF cb'.state # cb.state
                      THEN [count |-> cb.calls.count + 1,
                            from |-> cb.state, to |-> cb'.state]
                      ELSE cb.calls ]_vars

\* the third call of the callback: HalfOpen to Closed, after Closed to Open
\* and Open to HalfOpen
C17_Witness ==
    /\ cb.onStateChange
    /\ cb.calls = [count |-> 3, from |-> "half-open", to |-> "closed"]
    /\ cb.state = "closed"

C19_DefaultTripsOnSixthFailure ==
    /\ [](cb.state = "closed" => cb.windowCounts.Counts.ConsecutiveFailures <= 5)
    /\ [][ /\ (cb.state = "closed" /\ last'.op \in Reports
                 /\ last'.outcome = "failure" /\ ~last'.stale)
              => IF cb.windowCounts.Counts.ConsecutiveFailures = 5
                 THEN /\ cb'.state = "open"
                      /\ cb'.windowCounts.Counts = ZeroCounts
                 ELSE /\ cb'.state = "closed"
                      /\ cb'.windowCounts.Counts.ConsecutiveFailures
                           = cb.windowCounts.Counts.ConsecutiveFailures + 1
           /\ (cb.state = "closed" /\ cb'.state = "open")
              => /\ last'.op \in Reports
                 /\ last'.outcome = "failure"
                 /\ cb.windowCounts.Counts.ConsecutiveFailures = 5 ]_vars

\* Open on the sixth consecutive failure, and the next call rejected
C19_Witness ==
    /\ cb.state = "open"
    /\ cb.generation = 2
    /\ cb.windowCounts.Counts = ZeroCounts
    /\ cb.expiry > now
    /\ last.op \in Admissions
    /\ last.err = "ErrOpenState"

\* C20: invoking a done callback that has been invoked before leaves the
\* breaker as the time observation of the call alone leaves it: the outcome
\* is not applied a second time.
C20_DoneAppliesOnce ==
    [][ last'.op = "done_again" => cb' = Observed ]_vars

\* the sum of counter f over the buckets of the sequence
RECURSIVE SumOver(_, _)
SumOver(buckets, f) ==
    IF buckets = << >> THEN 0
    ELSE Head(buckets)[f] + SumOver(Tail(buckets), f)

\* the breaker keeps a rolling window: more than one bucket
RollingWindow(c) == c.interval > 0 /\ c.windowCounts.numBuckets > 1

\* C21: in a rolling-window breaker, the aggregate Requests, TotalSuccesses
\* and TotalFailures are each the sum of that counter over the buckets in
\* the window, and the window never holds more than numBuckets buckets.
C21_AggregateIsSumOfBuckets ==
    RollingWindow(cb) =>
        /\ \A f \in {"Requests", "TotalSuccesses", "TotalFailures"} :
              cb.windowCounts.Counts[f] = SumOver(cb.windowCounts.bucketCounts, f)
        /\ Len(cb.windowCounts.bucketCounts) <= cb.windowCounts.numBuckets

\* a rotation has discarded a bucket that had counted something, and both
\* buckets of the window hold requests
C21_Witness ==
    /\ RollingWindow(cb)
    /\ cb.windowCounts.bucketGeneration >= 2
    /\ Len(cb.windowCounts.bucketCounts) = 2
    /\ cb.windowCounts.bucketCounts[1].Requests > 0
    /\ cb.windowCounts.bucketCounts[2].TotalSuccesses > 0
    /\ cb.generation >= 2

\* ------------------------------------------- the distributed breaker
\* the step is State of instance q as far as its setSharedState, made
\* while the Execute of another instance has tripped the breaker and
\* returned, and the timeout of that trip has not elapsed
StateAfterTrip(q) ==
    /\ dist.trip.by \notin {0, q}
    /\ now < Unmarshal(dist.trip.data).Expiry
    /\ dist.inst[q].pc = "idle"
    /\ dist'.inst[q].pc = "State"

Ends(op, i) ==
    /\ dist' # dist
    /\ dist'.last.op = op
    /\ dist'.last.inst = i

\* C23: a constructor that finds a record under its key in a store that
\* answers leaves the record as it is
C23_ConstructorLeavesRecord ==
    [][\A i \in Instances :
          (/\ Ends("New", i)
           /\ dist'.last.fault = "none"
           /\ Len(dist.data) > 0)
          => dist'.data = dist.data]_vars

\* C24: State and Execute of an instance whose store is nil return no
\* error of the store and leave the instance's CircuitBreaker as its own
\* State and Execute would
C24_NullStoreFallsBack ==
    [][\A i \in Instances :
          (dist.inst[i].store = "nil" /\ dist.inst[i].pc = "idle")
          => /\ (Ends("State", i) \/ Ends("State_get", i))
                => /\ dist'.last.err = "nil"
                   /\ dist'.inst[i].cb = currentState(dist.inst[i].cb, now)
             /\ (Ends("Execute", i) \/ Ends("Execute_get", i))
                => /\ dist'.last.err \notin
                        {"ErrNoSharedStore", "ErrNoSharedState"} \cup StoreErrors
                   /\ dist'.inst[i].cb = beforeRequest(dist.inst[i].cb, now).cb]_vars

\* C25: an operation whose GetData fails returns the error of the store:
\* not ErrNoSharedState, and without writing the record
C25_StoreErrorSurfaced ==
    [][\A i \in Instances :
          (/\ Ends("New", i) \/ Ends("State", i) \/ Ends("Execute", i)
           /\ dist'.last.fault # "none")
          => /\ dist'.last.err \in StoreErrors
             /\ dist'.data = dist.data]_vars

\* C26: the record an Execute writes is the record it read at its start
\* advanced by its own call alone, whatever the store holds by then: what
\* another instance has written in between is overwritten
C26_LastWriterWins ==
    [][\A i \in Instances :
          (/\ dist.inst[i].pc \in {"running", "rejected"}
           /\ dist'.inst[i].pc = "idle")
          => \E o \in {"success", "failure"} :
                dist'.data = Marshal(extract(Reported(dist.inst[i], o)))]_vars

\* two calls of Execute have overlapped and both have returned a success:
\* the second to return found the first's request and success in the
\* store, and the record it has left counts one request and one success
C26_Witness ==
    /\ \A i \in Instances : dist.inst[i].pc = "idle"
    /\ dist.last.op = "Execute"
    /\ dist.last.err = "nil"
    /\ Len(dist.last.found) > 0
    /\ LET found == Unmarshal(dist.last.found)
           shared == Unmarshal(dist.data)
       IN /\ found.State = "closed"
          /\ shared.State = "closed"
          /\ found.Generation = shared.Generation
          /\ found.Counts.Requests = 1
          /\ found.Counts.TotalSuccesses = 1
          /\ shared.Counts.Requests = 1
          /\ shared.Counts.TotalSuccesses = 1


\* the number of periods of c.interval that have elapsed at time t since
\* c.expiry (for c.expiry < t and c.interval > 0): the least k with
\* c.expiry + k * c.interval not before t
PeriodsElapsed(c, t) ==
    CHOOSE k \in 1..(t - c.expiry) :
        /\ c.expiry + k * c.interval >= t
        /\ \A j \in 1..(k - 1) : c.expiry + j * c.interval < t

\* C27: an operation that observes a Closed breaker with interval > 0 at a
\* time now after expiry makes, in that one observation, as many rotations
\* as periods have elapsed since expiry (k), and sets expiry to the old
\* expiry + k * period, which is not before now.
C27_ObservationCatchesUp ==
    [][ (last'.op \in Operations /\ cb.state = "closed" /\ cb.interval > 0
           /\ cb.expiry # 0 /\ cb.expiry < now)
        => LET k == PeriodsElapsed(cb, now) IN
           /\ Observed.windowCounts.bucketGeneration
                = cb.windowCounts.bucketGeneration + k
           /\ Observed.expiry = cb.expiry + k * cb.interval
           /\ ~(Observed.expiry < now) ]_vars

\* C28: in a rolling-window breaker, a closed-state rotation increments
\* generation if the number of rotations since the window was last cleared
\* is then a multiple of numBuckets, and leaves it unchanged otherwise.
C28_GenerationAtEachTurnover ==
    [][ (last'.op \in Operations /\ cb.state = "closed" /\ RollingWindow(cb)
           /\ Rotates(cb, now))
        => Observed.generation =
             IF Observed.windowCounts.bucketGeneration % cb.windowCounts.numBuckets = 0
             THEN cb.generation + 1
             ELSE cb.generation ]_vars

\* the length of the run of one kind of outcome (streak: ConsecutiveSuccesses
\* or ConsecutiveFailures) that ends the outcomes recorded in the buckets,
\* oldest bucket first; broken is the total of the opposite kind
\* (TotalFailures or TotalSuccesses).  A bucket's own streak is the run that
\* ends its outcomes; the run goes on into the bucket before it only if the
\* bucket recorded no outcome of the opposite kind.
RECURSIVE TrailingRun(_, _, _)
TrailingRun(buckets, streak, broken) ==
    IF buckets = << >> THEN 0
    ELSE LET newest == buckets[Len(buckets)]
             older == SubSeq(buckets, 1, Len(buckets) - 1)
         IN IF newest[broken] > 0
            THEN newest[streak]
            ELSE newest[streak] + TrailingRun(older, streak, broken)

\* C29: right after a closed-state rotation that discards a bucket, the
\* aggregate ConsecutiveSuccesses (ConsecutiveFailures) is the length of the
\* run of successes (failures) that ends the outcomes recorded in the
\* buckets left in the window.
C29_StreakWithinRemainingBuckets ==
    [][ (last'.op \in Operations /\ cb.state = "closed" /\ cb.interval > 0
           /\ Rotates(cb, now)
           /\ Len(cb.windowCounts.bucketCounts) >= cb.windowCounts.numBuckets)
        => /\ Observed.windowCounts.Counts.ConsecutiveSuccesses =
                TrailingRun(Observed.windowCounts.bucketCounts,
                            "ConsecutiveSuccesses", "TotalFailures")
           /\ Observed.windowCounts.Counts.ConsecutiveFailures =
                TrailingRun(Observed.windowCounts.bucketCounts,
                            "ConsecutiveFailures", "TotalSuccesses") ]_vars

\* C30: the breaker NewCircuitBreaker builds from Settings with Interval > 0
\* has numBuckets = Interval div BucketPeriod and rotates every BucketPeriod
\* if 0 < BucketPeriod < Interval; in every other case it has one bucket and
\* rotates every Interval; numBuckets is never 0.
C30_BucketsFromSettings ==
    \A st \in WindowSettings :
        cb = NewCircuitBreaker(st, 1) =>
            /\ IF 0 < st.BucketPeriod /\ st.BucketPeriod < st.Interval
               THEN /\ cb.windowCounts.numBuckets = st.Interval \div st.BucketPeriod
                    /\ cb.interval = st.BucketPeriod
               ELSE /\ cb.windowCounts.numBuckets = 1
                    /\ cb.interval = st.Interval
            /\ cb.windowCounts.numBuckets # 0

\* C31: a HalfOpen breaker has the zero expiry, an Open breaker a non-zero
\* expiry, and a Closed breaker the zero expiry exactly when its interval
\* is 0
C31_ExpiryByState ==
    /\ cb.state = "half-open" => cb.expiry = 0
    /\ cb.state = "open" => cb.expiry # 0
    /\ cb.state = "closed" => (cb.expiry = 0 <=> cb.interval = 0)

\* a breaker that has been Open, with the expiry of its timeout, and is
\* HalfOpen now
C31_Witness ==
    /\ cb.state = "half-open"
    /\ cb.expiry = 0
    /\ cb.onStateChange
    /\ cb.calls.from = "open"
    /\ cb.calls.to = "half-open"

\* C38: the outcomes counted never exceed the requests admitted:
\* TotalSuccesses + TotalFailures <= Requests
C38_OutcomesWithinRequests ==
    cb.windowCounts.Counts.TotalSuccesses + cb.windowCounts.Counts.TotalFailures
        <= cb.windowCounts.Counts.Requests

\* ------------------------------------- the breaker of state objects (pkg)
\* entities.CircuitBreaker keeps its state as an object (ClosedState,
\* OpenState, HalfOpenState) to which it delegates every operation
\* RequestsCounts{} and RequestsCounts.Clear
ZeroRequestsCounts ==
    [Requests |-> 0, TotalSuccesses |-> 0, TotalFailures |-> 0,
     ConsecutiveSuccesses |-> 0, ConsecutiveFailures |-> 0]

RequestsCounts_OnRequest(counts) == [counts EXCEPT !.Requests = @ + 1]

RequestsCounts_OnSuccess(counts) ==
    [counts EXCEPT !.TotalSuccesses = @ + 1,
                   !.ConsecutiveSuccesses = @ + 1,
                   !.ConsecutiveFailures = 0]

RequestsCounts_OnFailure(counts) ==
    [counts EXCEPT !.TotalFailures = @ + 1,
                   !.ConsecutiveFailures = @ + 1,
                   !.ConsecutiveSuccesses = 0]

ClosedStateName == "Closed"

OpenStateName == "Open"

HalfOpenStateName == "HalfOpen"

\* ClosedState.toNewGeneration
ClosedState_toNewGeneration(e, t) ==
    IF e.interval = 0
    THEN [e EXCEPT !.expiry = 0]
    ELSE [e EXCEPT !.expiry = t + e.interval]

\* OpenState.toNewGeneration
OpenState_toNewGeneration(e, t) == [e EXCEPT !.expiry = t + e.timeout]

\* HalfOpenState.toNewGeneration
HalfOpenState_toNewGeneration(e, t) == [e EXCEPT !.expiry = 0]

\* cb.current.toNewGeneration(now)
State_toNewGeneration(e, t) ==
    CASE e.current = ClosedStateName -> ClosedState_toNewGeneration(e, t)
      [] e.current = OpenStateName -> OpenState_toNewGeneration(e, t)
      [] OTHER -> HalfOpenState_toNewGeneration(e, t)

\* entities.CircuitBreaker.toNewGeneration
entities_toNewGeneration(e, t) ==
    State_toNewGeneration([e EXCEPT !.generation = @ + 1,
                                    !.counts = ZeroRequestsCounts], t)

\* entities.CircuitBreaker.setState; current is "nil" before the first call
entities_setState(e, state, t) ==
    IF e.current # "nil" /\ e.current = state
    THEN e
    ELSE LET prev == e.current
             e1 == entities_toNewGeneration([e EXCEPT !.current = state], t) IN
         IF e1.onStateChange
         THEN [e1 EXCEPT !.calls = OnStateChange_called(@, prev, state)]
         ELSE e1

\* ClosedState.currentState
ClosedState_currentState(e, t) ==
    IF e.expiry # 0 /\ e.expiry < t
    THEN entities_toNewGeneration(e, t)
    ELSE e

\* OpenState.currentState
OpenState_currentState(e, t) ==
    IF e.expiry < t
    THEN entities_setState(e, HalfOpenStateName, t)
    ELSE e

\* entities.CircuitBreaker.currentState: cb.current.currentState(now),
\* which does nothing in HalfOpenState
entities_currentState(e, t) ==
    CASE e.current = ClosedStateName -> ClosedState_currentState(e, t)
      [] e.current = OpenStateName -> OpenState_currentState(e, t)
      [] OTHER -> e

\* ClosedState.beforeRequest
ClosedState_beforeRequest(e, generation) ==
    [cb |-> [e EXCEPT !.counts = RequestsCounts_OnRequest(@)],
     generation |-> generation, err |-> "nil"]

\* OpenState.beforeRequest
OpenState_beforeRequest(e, generation) ==
    [cb |-> e, generation |-> generation, err |-> "OpenStateErr"]

\* HalfOpenState.beforeRequest
HalfOpenState_beforeRequest(e, generation) ==
    IF e.counts.Requests >= e.maxRequests
    THEN [cb |-> e, generation |-> generation, err |-> "TooManyRequestsError"]
    ELSE [cb |-> [e EXCEPT !.counts = RequestsCounts_OnRequest(@)],
          generation |-> generation, err |-> "nil"]

\* entities.CircuitBreaker.beforeRequest
entities_beforeRequest(e, t) ==
    LET e1 == entities_currentState(e, t) IN
    CASE e1.current = ClosedStateName -> ClosedState_beforeRequest(e1, e1.generation)
      [] e1.current = OpenStateName -> OpenState_beforeRequest(e1, e1.generation)
      [] OTHER -> HalfOpenState_beforeRequest(e1, e1.generation)

\* ClosedState.onSuccess
ClosedState_onSuccess(e, t) ==
    [e EXCEPT !.counts = RequestsCounts_OnSuccess(@)]

\* ClosedState.onFailure
ClosedState_onFailure(e, t) ==
    LET e1 == [e EXCEPT !.counts = RequestsCounts_OnFailure(@)] IN
    IF readyToTrip(e1, e1.counts)
    THEN entities_setState(e1, OpenStateName, t)
    ELSE e1

\* HalfOpenState.onSuccess
HalfOpenState_onSuccess(e, t) ==
    LET e1 == [e EXCEPT !.counts = RequestsCounts_OnSuccess(@)] IN
    IF e1.counts.ConsecutiveSuccesses >= e1.maxRequests
    THEN entities_setState(e1, ClosedStateName, t)
    ELSE e1

\* HalfOpenState.onFailure
HalfOpenState_onFailure(e, t) == entities_setState(e, OpenStateName, t)

\* entities.CircuitBreaker.onSuccess: cb.current.onSuccess(now), which does
\* nothing in OpenState
entities_onSuccess(e, t) ==
    CASE e.current = ClosedStateName -> ClosedState_onSuccess(e, t)
      [] e.current = OpenStateName -> e
      [] OTHER -> HalfOpenState_onSuccess(e, t)

\* entities.CircuitBreaker.onFailure: cb.current.onFailure(now), which does
\* nothing in OpenState
entities_onFailure(e, t) ==
    CASE e.current = ClosedStateName -> ClosedState_onFailure(e, t)
      [] e.current = OpenStateName -> e
      [] OTHER -> HalfOpenState_onFailure(e, t)

\* entities.CircuitBreaker.afterRequest
entities_afterRequest(e, before, success, t) ==
    LET e1 == entities_currentState(e, t) IN
    IF e1.generation # before
    THEN e1
    ELSE IF success
         THEN entities_onSuccess(e1, t)
         ELSE entities_onFailure(e1, t)

\* entities.NewCircuitBreaker(WithMaxRequests, WithInterval, WithTimeout,
\* WithReadyToTrip, WithOnStateChange) at time t, the options carrying the
\* values of st: setState(cb.closed) runs before the configuration is
\* assigned, toNewGeneration after it
entities_NewCircuitBreaker(st, t) ==
    LET e0 == [current |-> "nil", generation |-> 0,
               counts |-> ZeroRequestsCounts, expiry |-> 0,
               maxRequests |-> 0, interval |-> 0, timeout |-> 0,
               tripAfter |-> 0, onStateChange |-> FALSE,
               calls |-> [count |-> 0, from |-> "closed", to |-> "closed"]]
        e1 == entities_setState(e0, ClosedStateName, t)
        e2 == [e1 EXCEPT
                 !.maxRequests = IF st.MaxRequests = 0 THEN 1 ELSE st.MaxRequests,
                 !.interval = IF st.Interval <= 0 THEN defaultInterval
                              ELSE st.Interval,
                 !.timeout = IF st.Timeout <= 0 THEN defaultTimeout
                             ELSE st.Timeout,
                 !.tripAfter = IF st.ReadyToTrip = << >> THEN defaultTripAfter
                               ELSE st.ReadyToTrip[1],
                 !.onStateChange = st.OnStateChange]
    IN entities_toNewGeneration(e2, t)

\* the name of the state object that stands for a State of the enumeration
NameOfState(state) ==
    CASE state = "closed" -> ClosedStateName
      [] state = "open" -> OpenStateName
      [] OTHER -> HalfOpenStateName

\* the error of package errors that stands for an error of gobreaker
ErrorOfErr(err) ==
    CASE err = "ErrOpenState" -> "OpenStateErr"
      [] err = "ErrTooManyRequests" -> "TooManyRequestsError"
      [] OTHER -> err

\* the counters RequestsCounts has, of a Counts
RequestsCountsOf(counts) ==
    [Requests |-> counts.Requests,
     TotalSuccesses |-> counts.TotalSuccesses,
     TotalFailures |-> counts.TotalFailures,
     ConsecutiveSuccesses |-> counts.ConsecutiveSuccesses,
     ConsecutiveFailures |-> counts.ConsecutiveFailures]

\* the counters of the breaker of state objects stay within the range
\* explored for breaker c
Capped_Paired(e, c) ==
    /\ e.counts.Requests <= CountCap(c)
    /\ e.counts.TotalSuccesses + e.counts.TotalFailures <= CountCap(c)

\* both breakers made at time 1 of the same fixed-window settings
Init_Paired ==
    /\ now = 1
    /\ cb = NewCircuitBreaker(FixedWindowSettings, 1)
    /\ entity = [cb |-> entities_NewCircuitBreaker(FixedWindowSettings, 1),
                 pc |-> [p \in Callers |-> "idle"],
                 tag |-> [p \in Callers |-> 0],
                 err |-> "nil"]
    /\ pc = [p \in Callers |-> "idle"]
    /\ tag = [p \in Callers |-> 0]
    /\ rotated = [p \in Callers |-> FALSE]
    /\ twoStep = FALSE
    /\ mutex = 0
    /\ live = 0
    /\ last = NoOp
    /\ dist = Undistributed

\* the clock of both breakers advances
Tick_Paired ==
    /\ now < MaxTime
    /\ now' = now + 1
    /\ last' = [NoOp EXCEPT !.op = "tick", !.from = cb.state]
    /\ entity' = [entity EXCEPT !.err = "nil"]
    /\ UNCHANGED <<cb, pc, tag, rotated, twoStep, mutex, live, dist>>

\* State() of both breakers
State_Paired ==
    /\ cb' = currentState(cb, now)
    /\ entity' = [entity EXCEPT !.cb = entities_currentState(@, now),
                                !.err = "nil"]
    /\ last' = Record("State", cb, "nil", "none", 0, FALSE)
    /\ UNCHANGED <<now, pc, tag, rotated, twoStep, mutex, live, dist>>

\* Execute of both breakers up to the call of req, by a caller that is in
\* neither
Execute_before_Paired(p) ==
    /\ pc[p] = "idle"
    /\ entity.pc[p] = "idle"
    /\ LET r == beforeRequest(cb, now)
           s == entities_beforeRequest(entity.cb, now) IN
       /\ cb' = r.cb
       /\ Capped(cb')
       /\ pc' = [pc EXCEPT ![p] = IF r.err = "nil" THEN "running" ELSE "idle"]
       /\ tag' = [tag EXCEPT ![p] = IF r.err = "nil" THEN r.generation ELSE 0]
       /\ last' = Record("Execute_before", cb, r.err, "none", r.generation, FALSE)
       /\ entity' = [cb |-> s.cb,
                     pc |-> [entity.pc EXCEPT
                               ![p] = IF s.err = "nil" THEN "running" ELSE "idle"],
                     tag |-> [entity.tag EXCEPT
                               ![p] = IF s.err = "nil" THEN s.generation ELSE 0],
                     err |-> s.err]
       /\ Capped_Paired(s.cb, cb)
    /\ UNCHANGED <<now, rotated, twoStep, mutex, live, dist>>

\* Execute of both breakers from the return of req, the same outcome
\* reported to each breaker that admitted the call
Execute_after_Paired(p, outcome) ==
    /\ pc[p] = "running" \/ entity.pc[p] = "running"
    /\ outcome \in {"success", "failure"}
    /\ cb' = IF pc[p] = "running"
             THEN afterRequest(cb, tag[p], outcome, now)
             ELSE cb
    /\ Capped(cb')
    /\ pc' = [pc EXCEPT ![p] = "idle"]
    /\ tag' = [tag EXCEPT ![p] = 0]
    /\ last' = Record("Execute_after", cb, "nil", outcome, tag[p], FALSE)
    /\ entity' = [cb |-> IF entity.pc[p] = "running"
                         THEN entities_afterRequest(entity.cb, entity.tag[p],
                                                    outcome = "success", now)
                         ELSE entity.cb,
                  pc |-> [entity.pc EXCEPT ![p] = "idle"],
                  tag |-> [entity.tag EXCEPT ![p] = 0],
                  err |-> "nil"]
    /\ Capped_Paired(entity'.cb, cb)
    /\ UNCHANGED <<now, rotated, twoStep, mutex, live, dist>>

Next_Paired ==
    \/ Tick_Paired
    \/ State_Paired
    \/ \E p \in Callers : Execute_before_Paired(p)
    \/ \E p \in Callers, o \in Outcomes : Execute_after_Paired(p, o)

\* the two breakers side by side
SpecPaired == Init_Paired /\ [][Next_Paired]_vars

\* C32: after every step of the same calls on both, the breaker of state
\* objects and the breaker of the enumeration have returned the same error
\* and are in the same state with the same counts
C32_SameErrorsStateAndCounts ==
    /\ entity.err = ErrorOfErr(last.err)
    /\ entity.cb.current = NameOfState(cb.state)
    /\ entity.cb.counts = RequestsCountsOf(cb.windowCounts.Counts)

\* C33: with two instances in Execute on one key, no write of an Execute
\* changes the state of the stored record from Open directly to Closed
C33_NoOpenToClosedWrite ==
    [][~(/\ Unmarshal(dist.data).State = "open"
         /\ Unmarshal(dist'.data).State = "closed"
         /\ \E i \in Instances : Ends("Execute", i))]_vars

\* -------------------- the distributed breaker that works on the record
\* src/v2/distributed_gobreaker.go: beforeRequest, afterRequest and State
\* load the SharedState, compute on it and store it; the embedded breaker
\* supplies the settings only. An operator takes and returns the pair w of
\* the embedded breaker c (whose calls the callback records) and the
\* SharedState state it works on
\* the aggregate's part of onRequest, onSuccess and onFailure
Counts_onRequest(counts) == [counts EXCEPT !.Requests = @ + 1]

Counts_onSuccess(counts) ==
    [counts EXCEPT !.TotalSuccesses = @ + 1,
                   !.ConsecutiveSuccesses = @ + 1,
                   !.ConsecutiveFailures = 0]

Counts_onFailure(counts) ==
    [counts EXCEPT !.TotalFailures = @ + 1,
                   !.ConsecutiveFailures = @ + 1,
                   !.ConsecutiveSuccesses = 0]

\* DistributedCircuitBreaker.toNewGeneration(state, now)
dcb_toNewGeneration(w, t) ==
    LET s == [w.state EXCEPT !.Generation = @ + 1, !.Counts = ZeroCounts] IN
    [w EXCEPT !.state =
        CASE s.State = "closed" ->
               IF w.c.interval = 0
               THEN [s EXCEPT !.Expiry = 0]
               ELSE [s EXCEPT !.Expiry = t + w.c.interval]
          [] s.State = "open" -> [s EXCEPT !.Expiry = t + w.c.timeout]
          [] OTHER -> [s EXCEPT !.Expiry = 0]]

\* DistributedCircuitBreaker.setState(state, newState, now)
dcb_setState(w, newState, t) ==
    IF w.state.State = newState
    THEN w
    ELSE LET prev == w.state.State
             w1 == dcb_toNewGeneration([w EXCEPT !.state.State = newState], t) IN
         IF w1.c.onStateChange
         THEN [w1 EXCEPT !.c.calls = OnStateChange_called(@, prev, newState)]
         ELSE w1

\* DistributedCircuitBreaker.currentState(state, now): state is passed by
\* value, so the pair returned holds the callee's copy, of which the
\* caller gets State and Generation; the callback has been called on c
dcb_currentState(w, t) ==
    CASE w.state.State = "closed" ->
           IF w.state.Expiry # 0 /\ w.state.Expiry < t
           THEN dcb_toNewGeneration(w, t)
           ELSE w
      [] w.state.State = "open" ->
           IF w.state.Expiry < t
           THEN dcb_setState(w, "half-open", t)
           ELSE w
      [] OTHER -> w

\* DistributedCircuitBreaker.onSuccess(state, currentState, now)
dcb_onSuccess(w, state, t) ==
    LET w1 == IF w.state.State = "open"
              THEN [w EXCEPT !.state.State = state]
              ELSE w IN
    CASE state = "closed" ->
           [w1 EXCEPT !.state.Counts = Counts_onSuccess(@)]
      [] state = "half-open" ->
           LET w2 == [w1 EXCEPT !.state.Counts = Counts_onSuccess(@)] IN
           IF w2.state.Counts.ConsecutiveSuccesses >= w2.c.maxRequests
           THEN dcb_setState(w2, "closed", t)
           ELSE w2
      [] OTHER -> w1

\* DistributedCircuitBreaker.onFailure(state, currentState, now)
dcb_onFailure(w, state, t) ==
    CASE state = "closed" ->
           LET w1 == [w EXCEPT !.state.Counts = Counts_onFailure(@)] IN
           IF readyToTrip(w1.c, w1.state.Counts)
           THEN dcb_setState(w1, "open", t)
           ELSE w1
      [] state = "half-open" -> dcb_setState(w, "open", t)
      [] OTHER -> w

\* DistributedCircuitBreaker.State past its getSharedState: the pair as
\* State leaves it, whether it calls setSharedState, and the State returned
dcb_State(w, t) ==
    LET cur == dcb_currentState(w, t)
        changed == cur.state.State # w.state.State IN
    [w |-> [c |-> cur.c,
            state |-> IF changed
                      THEN [w.state EXCEPT !.State = cur.state.State]
                      ELSE w.state],
     stored |-> changed,
     result |-> cur.state.State]

\* DistributedCircuitBreaker.beforeRequest past its getSharedState: the
\* pair as it leaves it, whether it has called setSharedState, and
\* (generation, err)
dcb_beforeRequest(w, t) ==
    LET cur == dcb_currentState(w, t)
        currentState_ == cur.state.State
        generation == cur.state.Generation
        w0 == [w EXCEPT !.c = cur.c]
        changed == currentState_ # w.state.State
        w1 == IF changed THEN dcb_setState(w0, currentState_, t) ELSE w0
    IN IF currentState_ = "open"
       THEN [w |-> w1, stored |-> changed, generation |-> generation,
             err |-> "ErrOpenState"]
       ELSE IF currentState_ = "half-open"
               /\ w1.state.Counts.Requests >= w1.c.maxRequests
       THEN [w |-> w1, stored |-> changed, generation |-> generation,
             err |-> "ErrTooManyRequests"]
       ELSE [w |-> [w1 EXCEPT !.state.Counts = Counts_onRequest(@)],
             stored |-> TRUE, generation |-> generation, err |-> "nil"]

\* DistributedCircuitBreaker.afterRequest past its getSharedState: the pair
\* as it leaves it and whether it calls setSharedState
dcb_afterRequest(w, before, success, t) ==
    LET cur == dcb_currentState(w, t)
        w0 == [w EXCEPT !.c = cur.c] IN
    IF cur.state.Generation # before
    THEN [w |-> w0, stored |-> FALSE]
    ELSE [w |-> IF success
                THEN dcb_onSuccess(w0, cur.state.State, t)
                ELSE dcb_onFailure(w0, cur.state.State, t),
          stored |-> TRUE]

\* a fixed window of one tick, a timeout of one tick, a trip on the second
\* consecutive failure and a callback
SharedSettings ==
    [MaxRequests |-> 0, Interval |-> 1, BucketPeriod |-> 0, Timeout |-> 1,
     ReadyToTrip |-> <<1>>, IsExcluded |-> FALSE, OnStateChange |-> TRUE]

\* the instances once NewDistributedCircuitBreaker has returned each at
\* time 1: each has written the initial state
Init_Shared ==
    /\ entity = Unpaired
    /\ now = 1
    /\ cb = NewCircuitBreaker(SharedSettings, 1)
    /\ pc = [p \in Callers |-> "idle"]
    /\ tag = [p \in Callers |-> 0]
    /\ rotated = [p \in Callers |-> FALSE]
    /\ twoStep = FALSE
    /\ mutex = 0
    /\ live = 0
    /\ last = NoOp
    /\ dist = [data |-> Marshal(extract(NewCircuitBreaker(SharedSettings, 1))),
               inst |-> [i \in Instances |->
                           [NewInstance EXCEPT
                              !.cb = NewCircuitBreaker(SharedSettings, 1),
                              !.pc = "idle"]],
               trip |-> NoTrip,
               last |-> Call("init", 0, "none", "nil", "none", << >>)]

\* the record a call that found the bytes data stores, or the bytes kept
\* when it stores nothing
Stored(data, r) ==
    IF r.stored
    THEN setSharedState("set", data, r.w.state, "none").data
    ELSE data

\* DistributedCircuitBreaker.State(ctx)
Shared_State(i) ==
    /\ dist.inst[i].pc \in {"idle", "running"}
    /\ LET d == dist.inst[i]
           g == getSharedState(d.store, dist.data, "none")
           r == dcb_State([c |-> d.cb, state |-> g.state], now)
       IN dist' = [dist EXCEPT
              !.data = Stored(dist.data, r),
              !.inst[i].cb = r.w.c,
              !.last = Call("State", i, "none", "nil", r.result, dist.data)]
    /\ UNCHANGED <<cb, now, pc, tag, rotated, twoStep, mutex, live, last, entity>>

\* Execute up to the call of req: beforeRequest, and on an error the return
Shared_Execute_before(i) ==
    /\ dist.inst[i].pc = "idle"
    /\ LET d == dist.inst[i]
           g == getSharedState(d.store, dist.data, "none")
           r == dcb_beforeRequest([c |-> d.cb, state |-> g.state], now)
       IN /\ r.w.state.Counts.Requests <= CountCap(d.cb)
          /\ dist' = [dist EXCEPT
              !.data = Stored(dist.data, r),
              !.inst[i] = [d EXCEPT
                  !.cb = r.w.c,
                  !.pc = IF r.err = "nil" THEN "running" ELSE "idle",
                  !.tag = IF r.err = "nil" THEN r.generation ELSE 0],
              !.last = Call("Execute_before", i, "none", r.err, "none", dist.data)]
    /\ UNCHANGED <<cb, now, pc, tag, rotated, twoStep, mutex, live, last, entity>>

\* Execute from the return of req: afterRequest with the outcome
Shared_Execute_after(i, outcome) ==
    /\ dist.inst[i].pc = "running"
    /\ outcome \in {"success", "failure"}
    /\ LET d == dist.inst[i]
           g == getSharedState(d.store, dist.data, "none")
           r == dcb_afterRequest([c |-> d.cb, state |-> g.state], d.tag,
                                 outcome = "success", now)
       IN dist' = [dist EXCEPT
              !.data = Stored(dist.data, r),
              !.inst[i] = [d EXCEPT !.cb = r.w.c, !.pc = "idle", !.tag = 0],
              !.last = Call("Execute_after", i, "none",
                            IF outcome = "failure" THEN "fail" ELSE "nil",
                            "none", dist.data)]
    /\ UNCHANGED <<cb, now, pc, tag, rotated, twoStep, mutex, live, last, entity>>

\* Execute from a panic of req: the deferred function recovers it, calls
\* afterRequest(ctx, generation, false) and panics again
Shared_Execute_panic(i) ==
    /\ dist.inst[i].pc = "running"
    /\ LET d == dist.inst[i]
           g == getSharedState(d.store, dist.data, "none")
           r == dcb_afterRequest([c |-> d.cb, state |-> g.state], d.tag,
                                 FALSE, now)
       IN dist' = [dist EXCEPT
              !.data = Stored(dist.data, r),
              !.inst[i] = [d EXCEPT !.cb = r.w.c, !.pc = "idle", !.tag = 0],
              !.last = Call("Execute_panic", i, "none", "panic", "none", dist.data)]
    /\ UNCHANGED <<cb, now, pc, tag, rotated, twoStep, mutex, live, last, entity>>

Next_Shared ==
    \/ Tick_Distributed
    \/ \E i \in Instances : Shared_State(i)
    \/ \E i \in Instances : Shared_Execute_before(i)
    \/ \E i \in Instances, o \in Outcomes : Shared_Execute_after(i, o)
    \/ \E i \in Instances : Shared_Execute_panic(i)

SpecShared == Init_Shared /\ [][Next_Shared]_vars

\* the record the store held as the step began
Found == Unmarshal(dist.data)

\* C34: an admission that finds a Closed record whose interval has elapsed
\* stores a record with Requests = 1, every other counter zero, the
\* generation incremented and a new expiry
C34_AdmissionClearsSharedCounts ==
    [][\A i \in Instances :
          (/\ Ends("Execute_before", i)
           /\ dist'.last.err = "nil"
           /\ Found.State = "closed"
           /\ Found.Expiry # 0
           /\ Found.Expiry < now)
          => /\ Unmarshal(dist'.data).Counts = [ZeroCounts EXCEPT !.Requests = 1]
             /\ Unmarshal(dist'.data).Generation = Found.Generation + 1
             /\ Unmarshal(dist'.data).Expiry > Found.Expiry]_vars

\* C35: State() that finds an Open record whose timeout has elapsed stores
\* a HalfOpen record with the generation incremented by one, every counter
\* zero and the zero expiry
C35_StateStoresHalfOpenRecord ==
    [][\A i \in Instances :
          (/\ Ends("State", i)
           /\ Found.State = "open"
           /\ Found.Expiry < now)
          => Unmarshal(dist'.data) =
                [State |-> "half-open", Generation |-> Found.Generation + 1,
                 Counts |-> ZeroCounts, Expiry |-> 0]]_vars

\* C36: an admission that finds an Open record whose timeout has elapsed
\* calls OnStateChange once, with (Open, HalfOpen)
C36_OneCallbackOnAdmission ==
    [][\A i \in Instances :
          (/\ Ends("Execute_before", i)
           /\ Found.State = "open"
           /\ Found.Expiry < now)
          => dist'.inst[i].cb.calls =
                OnStateChange_called(dist.inst[i].cb.calls,
                                     "open", "half-open")]_vars

\* ------------------------------------------- a closure that panics in the
\* distributed breaker that injects the record into its embedded breaker
\* a breaker that trips on the second consecutive failure and never
\* clears its counts while Closed
PanicSettings ==
    [MaxRequests |-> 0, Interval |-> 0, BucketPeriod |-> 0, Timeout |-> 1,
     ReadyToTrip |-> <<1>>, IsExcluded |-> FALSE, OnStateChange |-> FALSE]

Init_Panic ==
    /\ entity = Unpaired
    /\ now = 1
    /\ cb = NewCircuitBreaker(PanicSettings, 1)
    /\ pc = [p \in Callers |-> "idle"]
    /\ tag = [p \in Callers |-> 0]
    /\ rotated = [p \in Callers |-> FALSE]
    /\ twoStep = FALSE
    /\ mutex = 0
    /\ live = 0
    /\ last = NoOp
    /\ dist = [data |-> Marshal(extract(NewCircuitBreaker(PanicSettings, 1))),
               inst |-> [i \in Instances |->
                           [NewInstance EXCEPT
                              !.cb = NewCircuitBreaker(PanicSettings, 1),
                              !.pc = "idle"]],
               trip |-> NoTrip,
               last |-> Call("init", 0, "none", "nil", "none", << >>)]

\* DistributedCircuitBreaker.Execute from a panic of req: the deferred
\* function of the embedded CircuitBreaker.Execute reports the failure to
\* the embedded breaker and panics again; Execute of the distributed
\* breaker recovers nothing, so its extract and setSharedState do not run
DCB_Execute_panic(i) ==
    /\ dist.inst[i].pc = "running"
    /\ LET d == dist.inst[i]
           c == Reported(d, "failure")
       IN /\ Capped(c)
          /\ dist' = [dist EXCEPT
                !.inst[i] = [d EXCEPT !.cb = c, !.pc = "idle", !.tag = 0,
                                      !.result = "none"],
                !.last = Call("Execute_panic", i, "none", "panic", "none",
                              dist.data)]
    /\ UNCHANGED <<cb, now, pc, tag, rotated, twoStep, mutex, live, last, entity>>

Next_Panic ==
    \/ Tick_Distributed
    \/ \E i \in Instances : DCB_State_get(i, "none")
    \/ \E i \in Instances : DCB_State_set(i, "none")
    \/ \E i \in Instances : DCB_Execute_get(i, "none")
    \/ \E i \in Instances, o \in Outcomes : DCB_Execute_set(i, o, "none")
    \/ \E i \in Instances : DCB_Execute_panic(i)

SpecPanic == Init_Panic /\ [][Next_Panic]_vars

\* C37: when the closure of an Execute admitted under the stored Closed
\* record panics, and the failure does not trip the breaker, the record
\* in the store as the panic leaves Execute has TotalFailures one higher
C37_PanicFailureStored ==
    [][\A i \in Instances :
          (/\ Ends("Execute_panic", i)
           /\ Found.State = "closed"
           /\ Found.Generation = dist.inst[i].tag
           /\ (Found.Expiry = 0 \/ Found.Expiry >= now)
           /\ ~readyToTrip(dist.inst[i].cb, Counts_onFailure(Found.Counts)))
          => Unmarshal(dist'.data).Counts.TotalFailures
                = Found.Counts.TotalFailures + 1]_vars

\* --------------------------------------------- leaving HalfOpen (liveness)
\* breakers without an exclusion predicate that never clear their counts
\* while Closed, trip on the first failure and take one or two calls in
\* HalfOpen
LiveSettings ==
    [MaxRequests : MaxRequestsSettings,
     Interval : {0},
     BucketPeriod : {0},
     Timeout : TimeoutSettings,
     ReadyToTrip : {<<0>>},
     IsExcluded : {FALSE},
     OnStateChange : {FALSE}]

Init_Live == InitWith(LiveSettings)

\* the call caller p has in flight reports its outcome: req returns or
\* panics in Execute, or the done callback is invoked for the first time
ReportsOutcome(p) ==
    \/ \E o \in {"success", "failure"} : Execute_after(p, o)
    \/ Execute_panic(p)
    \/ pc[p] = "allowed" /\ \E o \in {"success", "failure"} : done(p, o)

\* some caller attempts admission
Attempts == \E p \in Callers : Execute_before(p) \/ Allow(p)

\* every admitted call eventually reports (req returns, panics, or done is
\* invoked), and callers keep attempting admission
SpecLive ==
    /\ Init_Live
    /\ [][Next]_vars
    /\ \A p \in Callers : WF_vars(ReportsOutcome(p))
    /\ WF_vars(Attempts)

\* C39: when every admitted call eventually reports a success or a failure
\* and callers keep attempting admission, a HalfOpen breaker eventually
\* leaves HalfOpen
C39_HalfOpenIsLeft == (cb.state = "half-open") ~> (cb.state # "half-open")

\* a HalfOpen breaker with a call in flight has rejected an attempt with
\* ErrTooManyRequests
C39_Witness ==
    /\ cb.state = "half-open"
    /\ last.from = "half-open"
    /\ last.err = "ErrTooManyRequests"
    /\ \E p \in Callers : pc[p] \in {"running", "allowed"} /\ tag[p] = cb.generation

\* ------------------------------------------ waiting for cb.mutex (liveness)
\* where a caller is while its cb.mutex.Lock() at the head of method m has
\* not returned
Waiting(m) ==
    CASE m = "beforeRequest" -> "Lock beforeRequest"
      [] m = "afterRequest" -> "Lock afterRequest"
      [] m = "State" -> "Lock State"
      [] OTHER -> "Lock Counts"

\* caller p calls method m and reaches its cb.mutex.Lock(): beforeRequest
\* at the start of Execute (of Allow), afterRequest once the closure has
\* returned or panicked (once done is invoked), State and Counts by a
\* caller not inside Execute
Enters(p, m) ==
    /\ m \in Methods
    /\ pc[p] = IF m = "afterRequest" THEN "running" ELSE "idle"
    /\ m = "beforeRequest" => cb.windowCounts.Counts.Requests < CountCap(cb)
    /\ pc' = [pc EXCEPT ![p] = Waiting(m)]
    /\ UNCHANGED <<cb, now, tag, rotated, twoStep, mutex, live, last, dist, entity>>

\* cb.mutex.Lock() of caller p at the head of method m returns
Acquires(p, m) ==
    /\ m \in Methods
    /\ pc[p] = Waiting(m)
    /\ mutex = 0
    /\ mutex' = p
    /\ pc' = [pc EXCEPT ![p] = m]
    /\ UNCHANGED <<cb, now, tag, rotated, twoStep, live, last, dist, entity>>

Next_MutexLive ==
    \/ Tick
    \/ \E p \in Callers, m \in Methods : Enters(p, m)
    \/ \E p \in Callers, m \in Methods : Acquires(p, m)
    \/ \E p \in Callers : Return_beforeRequest(p)
    \/ \E p \in Callers, o \in Outcomes : Return_afterRequest(p, o)
    \/ \E p \in Callers : Return_State(p)
    \/ \E p \in Callers : Return_Counts(p)

\* a method body runs to its return once it holds the mutex (the callback
\* does not call the breaker), and a Lock() that can return again and again
\* does return (sync.Mutex hands the mutex to a waiter that has not got it
\* within a millisecond); no closure need ever return, and nobody need
\* ever call
SpecMutexLive ==
    /\ Init_Mutex
    /\ [][Next_MutexLive]_vars
    /\ \A p \in Callers : WF_vars(Returns(p))
    /\ \A p \in Callers : SF_vars(\E m \in Methods : Acquires(p, m))

\* C40: every call of beforeRequest (Execute, Allow), afterRequest (the end
\* of Execute, its deferred function after a panic, done), State and Counts
\* that waits for the mutex gets it, and whoever holds it releases it
C40_NoOperationBlocksForever ==
    \A p \in Callers :
        /\ (\E m \in Methods : pc[p] = Waiting(m)) ~> (mutex = p)
        /\ (mutex = p) ~> (mutex # p)

\* a caller whose closure has ended waits for the mutex to report its
\* outcome while another caller holds it inside beforeRequest
C40_Witness ==
    \E p, q \in Callers :
        /\ pc[p] = Waiting("afterRequest")
        /\ pc[q] = "beforeRequest"
        /\ mutex = q
=============================================================================
